---- MODULE Spec2Model ----
(***************************************************************************)
(* Unknown-field validation of protobuf wire buffers (x/tx/decode) and the *)
(* amino-JSON sign mode handler that runs it (x/tx/signing/aminojson).     *)
(*                                                                         *)
(* A buffer is a sequence of bytes (0..255).  The walk of                  *)
(* RejectUnknownFields is a state machine over an explicit call stack:     *)
(* one action per loop iteration, per return and per resumption of a       *)
(* caller after a recursive call.                                          *)
(***************************************************************************)
EXTENDS Integers, Sequences, FiniteSets, TLC

(***************************************************************************)
(* Bounds of the model.                                                    *)
(***************************************************************************)
\* nesting depth of message / envelope fields below the root message
MaxDepth == 2
\* number of fields of the root message
MaxFields == 2
\* number of vesting periods of a message
MaxPeriods == 2
\* coins the funding account starts with
MaxFunds == 2
\* the recipient's OriginalVesting is followed up to this amount
MaxVesting == 3
\* operations buffered in a batch
MaxOps == 2
\* transactions begun on the database
MaxBegun == 2
\* statements executed on the database
MaxStatements == 4

(***************************************************************************)
(* Sequence helpers.                                                       *)
(***************************************************************************)
Drop(s, n) == SubSeq(s, n + 1, Len(s))

Take(s, n) == SubSeq(s, 1, n)

RECURSIVE Pow2(_)
Pow2(n) == IF n = 0 THEN 1 ELSE 2 * Pow2(n - 1)

RECURSIVE LastIndexByte(_, _)
\* strings.LastIndexByte: the last position of byte c in s, 0 when absent
LastIndexByte(s, c) ==
    IF s = <<>> THEN 0
    ELSE IF s[Len(s)] = c THEN Len(s)
    ELSE LastIndexByte(Take(s, Len(s) - 1), c)

(***************************************************************************)
(* The wire scanner (protowire), as RejectUnknownFields uses it.  A result *)
(* n < 0 is a parse error, as in the library.                              *)
(***************************************************************************)
\* wire types
VarintType == 0
Fixed64Type == 1
BytesType == 2
StartGroupType == 3
EndGroupType == 4
Fixed32Type == 5

RECURSIVE AppendVarint(_)
\* protowire.AppendVarint: little-endian base-128, high bit = continuation
AppendVarint(v) ==
    IF v < 128 THEN <<v>> ELSE <<128 + (v % 128)>> \o AppendVarint(v \div 128)

RECURSIVE ConsumeVarintAt(_, _)
\* the bytes of b from position i on, read as a varint: [v, n] with n the
\* number of bytes read, or n = -1 (truncated / overflow).  Values are exact
\* up to 28 bits; a longer varint keeps its low 28 bits and sets bit 28.
ConsumeVarintAt(b, i) ==
    IF i > Len(b) \/ i > 10 THEN [v |-> 0, n |-> -1]
    ELSE IF b[i] < 128
         THEN IF i = 10 /\ b[i] > 1 THEN [v |-> 0, n |-> -1]
              ELSE [v |-> IF i <= 4 THEN b[i] * Pow2(7 * (i - 1))
                          ELSE IF b[i] > 0 THEN Pow2(28) ELSE 0,
                    n |-> i]
         ELSE LET r == ConsumeVarintAt(b, i + 1)
              IN IF r.n < 0 THEN r
                 ELSE [v |-> IF i <= 4
                             THEN (b[i] - 128) * Pow2(7 * (i - 1)) + r.v
                             ELSE IF b[i] > 128 \/ r.v > 0 THEN Pow2(28) ELSE 0,
                       n |-> r.n]

ConsumeVarint(b) == ConsumeVarintAt(b, 1)

\* protowire.ConsumeTag: [num, typ, n]; a field number below 1 is an error
ConsumeTag(b) ==
    LET r == ConsumeVarint(b)
    IN IF r.n < 0 THEN [num |-> 0, typ |-> 0, n |-> r.n]
       ELSE IF r.v \div 8 < 1 THEN [num |-> 0, typ |-> 0, n |-> -1]
       ELSE [num |-> r.v \div 8, typ |-> r.v % 8, n |-> r.n]

\* protowire.ConsumeBytes: the length prefix and the bytes it announces
ConsumeBytes(b) ==
    LET r == ConsumeVarint(b)
    IN IF r.n < 0 THEN -1
       ELSE IF r.v > Len(b) - r.n THEN -1
       ELSE r.n + r.v

RECURSIVE ConsumeFieldValue(_, _, _)
RECURSIVE ConsumeGroup(_, _, _)
\* the fields of a group up to the matching end-group tag; n0 = length of
\* the buffer the group started in
ConsumeGroup(num, b, n0) ==
    LET t == ConsumeTag(b)
    IN IF t.n < 0 THEN t.n
       ELSE LET b1 == Drop(b, t.n)
            IN IF t.typ = EndGroupType
               THEN IF num # t.num THEN -1 ELSE n0 - Len(b1)
               ELSE LET n == ConsumeFieldValue(t.num, t.typ, b1)
                    IN IF n < 0 THEN n
                       ELSE ConsumeGroup(num, Drop(b1, n), n0)

\* protowire.ConsumeFieldValue: the length of the value of a field of wire
\* type typ at the head of b
ConsumeFieldValue(num, typ, b) ==
    CASE typ = VarintType -> ConsumeVarint(b).n
      [] typ = Fixed32Type -> IF Len(b) < 4 THEN -1 ELSE 4
      [] typ = Fixed64Type -> IF Len(b) < 8 THEN -1 ELSE 8
      [] typ = BytesType -> ConsumeBytes(b)
      [] typ = StartGroupType -> ConsumeGroup(num, b, Len(b))
      [] OTHER -> -1

(***************************************************************************)
(* Descriptors.  A descriptor is named by a string; Fields gives its field *)
(* numbers, FieldKind the declared kind of a field and FieldMessage the    *)
(* descriptor of a message-kind field ("" for a scalar field).             *)
(*   Msg    : a message with scalar, nested-message and envelope fields    *)
(*   Any    : google.protobuf.Any (type_url = 1, value = 2)                *)
(*   TxBody : cosmos.tx.v1beta1.TxBody                                     *)
(***************************************************************************)
bit11NonCritical == 1024

anyFullName == "Any"

anyDesc == "Any"

Kinds ==
    { "int32", "int64", "sint32", "sint64", "uint32", "uint64", "bool", "enum",
      "fixed64", "sfixed64", "double",
      "string", "bytes", "message", "group",
      "fixed32", "sfixed32", "float" }

\* field number -> <<kind, message descriptor>>
DescriptorTable ==
    [ Msg |-> [n \in {1, 2, 3, 4, 5, 6, 1026} |->
                 CASE n = 1 -> <<"uint64", "">>
                   [] n = 2 -> <<"string", "">>
                   [] n = 3 -> <<"message", "Msg">>
                   [] n = 4 -> <<"message", "Any">>
                   [] n = 5 -> <<"fixed32", "">>
                   [] n = 6 -> <<"int32", "">>       \* repeated int32
                   [] n = 1026 -> <<"string", "">>],
      Any |-> [n \in {1, 2} |->
                 CASE n = 1 -> <<"string", "">>
                   [] n = 2 -> <<"bytes", "">>],
      TxBody |-> [n \in {1, 2, 3, 1023, 2047} |->
                 CASE n = 1 -> <<"message", "Any">>     \* messages
                   [] n = 2 -> <<"string", "">>         \* memo
                   [] n = 3 -> <<"uint64", "">>         \* timeout_height
                   [] n = 1023 -> <<"message", "Any">>  \* extension_options
                   [] n = 2047 -> <<"message", "Any">>] \* non_critical_extension_options
    ]

\* desc.Fields().ByNumber(tagNum) # nil
HasField(desc, num) == num \in DOMAIN DescriptorTable[desc]

\* fieldDesc.Kind()
FieldKind(desc, num) == DescriptorTable[desc][num][1]

\* fieldDesc.Message(): "" stands for nil
FieldMessage(desc, num) == DescriptorTable[desc][num][2]

\* the criticality test with the mask one bit too high
isCriticalField_Bit12(tagNum) == (tagNum \div (2 * bit11NonCritical)) % 2 = 0

\* tagNum&bit11NonCritical == 0
isCriticalField(tagNum) == (tagNum \div bit11NonCritical) % 2 = 0

\* the switch without the string and bytes kinds and with a permissive default
isWireTypeAssignable_Lenient(wt, kind) ==
    CASE kind \in {"int32", "int64", "sint32", "sint64", "uint32", "uint64",
                   "bool", "enum"} -> wt = VarintType
      [] kind \in {"fixed64", "sfixed64", "double"} -> wt = Fixed64Type
      [] kind \in {"message", "group"} -> wt = BytesType
      [] kind \in {"fixed32", "sfixed32", "float"} -> wt = Fixed32Type
      [] OTHER -> TRUE

isWireTypeAssignable(wt, kind) ==
    CASE kind \in {"int32", "int64", "sint32", "sint64", "uint32", "uint64",
                   "bool", "enum"} -> wt = VarintType
      [] kind \in {"fixed64", "sfixed64", "double"} -> wt = Fixed64Type
      [] kind \in {"string", "bytes", "message", "group"} -> wt = BytesType
      [] kind \in {"fixed32", "sfixed32", "float"} -> wt = Fixed32Type
      [] OTHER -> FALSE

(***************************************************************************)
(* Type URLs and the resolver.  A type URL and a message name are byte     *)
(* strings; the registry knows the names "M" (Msg), "A" (Any), "T"         *)
(* (TxBody) and "E", which names an enum, not a message.                   *)
(***************************************************************************)
Slash == 47

\* the name after the last '/' of the URL, the whole URL when it has none
MessageNameFromTypeURL(url) == Drop(url, LastIndexByte(url, Slash))

\* resolver.FindDescriptorByName: [err, isMessage, desc]
FindDescriptorByName(name) ==
    CASE name = <<77>> -> [err |-> "nil", isMessage |-> TRUE, desc |-> "Msg"]
      [] name = <<65>> -> [err |-> "nil", isMessage |-> TRUE, desc |-> "Any"]
      [] name = <<84>> -> [err |-> "nil", isMessage |-> TRUE, desc |-> "TxBody"]
      [] name = <<69>> -> [err |-> "nil", isMessage |-> FALSE, desc |-> "Enum"]
      [] OTHER -> [err |-> "not found", isMessage |-> FALSE, desc |-> ""]

\* utf8.Valid on the strings of the model: ASCII bytes only (the model holds
\* no multi-byte characters; a byte >= 128 stands for an invalid sequence)
ValidUTF8(s) == \A i \in 1..Len(s) : s[i] < 128

RECURSIVE UnmarshalAny(_, _)
\* one field of the envelope: tag t read from b, value of n bytes in b1
UnmarshalAnyField(a, t, b1, n) ==
    IF n < 0 THEN [a EXCEPT !.err = "proto: cannot parse invalid wire-format data"]
    ELSE IF t.num = 1 /\ t.typ = BytesType
    THEN IF ~ValidUTF8(Drop(Take(b1, n), ConsumeVarint(b1).n))
         THEN [a EXCEPT !.err = "proto: invalid UTF-8"]
         ELSE UnmarshalAny(Drop(b1, n),
                           [a EXCEPT !.TypeUrl = Drop(Take(b1, n), ConsumeVarint(b1).n)])
    ELSE IF t.num = 2 /\ t.typ = BytesType
    THEN UnmarshalAny(Drop(b1, n),
                      [a EXCEPT !.Value = Drop(Take(b1, n), ConsumeVarint(b1).n)])
    ELSE UnmarshalAny(Drop(b1, n), a)

UnmarshalAnyTag(b, a, t) ==
    IF t.n < 0 THEN [a EXCEPT !.err = "proto: cannot parse invalid wire-format data"]
    ELSE UnmarshalAnyField(a, t, Drop(b, t.n), ConsumeFieldValue(t.num, t.typ, Drop(b, t.n)))

\* proto.Unmarshal(b, &a) for a = anypb.Any, merging into a: the last
\* type_url and the last value win, other fields are kept as unknown
UnmarshalAny(b, a) == IF b = <<>> THEN a ELSE UnmarshalAnyTag(b, a, ConsumeTag(b))

EmptyAny == [err |-> "nil", TypeUrl |-> <<>>, Value |-> <<>>]

(***************************************************************************)
(* Input buffers.  A buffer is the wire encoding of a message tree: a      *)
(* sequence of nodes [role, url, kids], each one field.  The role says     *)
(* what the field is for the descriptor that owns it; the encoder turns it *)
(* into the bytes the validator reads.                                     *)
(*   leaves:   varint, string, fixed32, packed  known fields, wire type of *)
(*                                        the kind (packed: a packed       *)
(*                                        repeated int32)                  *)
(*             mismatch, mismatchNC       known field, foreign wire type   *)
(*                                        (NC: a number with bit 1024)     *)
(*             unkCrit                    unknown number, bit 1024 unset   *)
(*             unkNonCrit, unkNonCritGroup unknown number, bit 1024 set    *)
(*             truncated                  unknown number with bit 1024 set *)
(*                                        whose value runs past the buffer *)
(*   wrappers: nested                     message field, kids = its fields *)
(*             any, extOpt, ncExtOpt      envelope field: url = type URL,  *)
(*                                        kids = the payload               *)
(*             anyExtraCrit, anyExtraNonCrit  envelope whose wrapper holds *)
(*                                        an extra unknown field           *)
(***************************************************************************)
UrlMsg == <<47, 77>>             \* "/M"

UrlAny == <<116, 47, 65>>        \* "t/A"

UrlUnknown == <<47, 88>>         \* "/X", not in the registry

UrlEnum == <<47, 69>>            \* "/E", an enum of the registry

UrlBadUTF8 == <<255>>

Node(role, url, kids) == [role |-> role, url |-> url, kids |-> kids]

Leaf(role) == Node(role, <<>>, <<>>)

AnyRoles == {"any", "extOpt", "ncExtOpt", "anyExtraCrit", "anyExtraNonCrit"}

\* the descriptor an envelope's payload is written for
PayloadDesc(url) == IF url = UrlAny THEN "Any" ELSE "Msg"

\* field number, wire type and value bytes of a leaf under descriptor desc
LeafSpec(role, desc) ==
    CASE role = "varint" ->
           [num |-> IF desc = "TxBody" THEN 3 ELSE 1, typ |-> VarintType, val |-> <<1>>]
      [] role = "string" -> [num |-> 2, typ |-> BytesType, val |-> <<1, 104>>]
      [] role = "fixed32" -> [num |-> 5, typ |-> Fixed32Type, val |-> <<1, 0, 0, 0>>]
      [] role = "packed" -> [num |-> 6, typ |-> BytesType, val |-> <<2, 1, 2>>]
      [] role = "mismatch" -> [num |-> 2, typ |-> VarintType, val |-> <<1>>]
      [] role = "mismatchNC" ->
           [num |-> IF desc = "TxBody" THEN 2047 ELSE 1026, typ |-> VarintType,
            val |-> <<1>>]
      [] role = "unkCrit" -> [num |-> 9, typ |-> VarintType, val |-> <<1>>]
      [] role = "unkNonCrit" -> [num |-> 1025, typ |-> VarintType, val |-> <<1>>]
      [] role = "unkNonCritGroup" ->
           [num |-> 1025, typ |-> StartGroupType,
            val |-> <<8, 1>> \o AppendVarint(1025 * 8 + EndGroupType)]
      [] role = "truncated" -> [num |-> 1025, typ |-> BytesType, val |-> <<100>>]

\* field number of a wrapper under descriptor desc
WrapperNum(role, desc) ==
    CASE role = "nested" -> 3
      [] role = "extOpt" -> 1023
      [] role = "ncExtOpt" -> 2047
      [] OTHER -> IF desc = "TxBody" THEN 1 ELSE 4

AppendTag(num, typ) == AppendVarint(num * 8 + typ)

AppendBytes(b) == AppendVarint(Len(b)) \o b

RECURSIVE EncodeMsg(_, _)
RECURSIVE EncodeField(_, _)
RECURSIVE AnyBody(_)
\* the bytes of an envelope: type_url, extra fields of the wrapper, value
AnyBody(node) ==
    LET payload == IF PayloadDesc(node.url) = "Any"
                   THEN IF node.kids = <<>> THEN <<>> ELSE AnyBody(node.kids[1])
                   ELSE EncodeMsg(node.kids, "Msg")
        extra == CASE node.role = "anyExtraCrit" -> EncodeField(Leaf("unkCrit"), "Any")
                   [] node.role = "anyExtraNonCrit" -> EncodeField(Leaf("unkNonCrit"), "Any")
                   [] OTHER -> <<>>
    IN (IF node.url = <<>> THEN <<>> ELSE AppendTag(1, BytesType) \o AppendBytes(node.url))
       \o extra
       \o (IF payload = <<>> THEN <<>> ELSE AppendTag(2, BytesType) \o AppendBytes(payload))

EncodeField(node, desc) ==
    IF node.role = "nested"
    THEN AppendTag(WrapperNum(node.role, desc), BytesType)
         \o AppendBytes(EncodeMsg(node.kids, "Msg"))
    ELSE IF node.role \in AnyRoles
    THEN AppendTag(WrapperNum(node.role, desc), BytesType) \o AppendBytes(AnyBody(node))
    ELSE LET l == LeafSpec(node.role, desc)
         IN AppendTag(l.num, l.typ) \o l.val

EncodeMsg(nodes, desc) ==
    IF nodes = <<>> THEN <<>>
    ELSE EncodeField(nodes[1], desc) \o EncodeMsg(Drop(nodes, 1), desc)

\* leaves a message of descriptor desc may hold
Leaves(desc) ==
    {Leaf(r) : r \in {"varint", "string", "mismatch", "mismatchNC", "unkCrit",
                      "unkNonCrit", "unkNonCritGroup", "truncated"}
                     \cup (IF desc = "Msg" THEN {"fixed32", "packed"} ELSE {})}

\* leaves that stand beside the one deep field of the root message
SiblingLeaves == {Leaf(r) : r \in {"varint", "unkCrit", "unkNonCrit"}}

\* leaves of the messages inside wrappers
InnerLeaves == {Leaf(r) : r \in {"varint", "mismatch", "unkCrit", "unkNonCrit"}}

\* envelopes whose payload is not walked further by the generator
TerminalAnys(desc) ==
    {Node("any", u, k) : u \in {UrlUnknown, UrlEnum}, k \in {<<>>, <<Leaf("unkCrit")>>}}
    \cup {Node("any", UrlBadUTF8, <<>>), Node("any", <<>>, <<>>),
          Node("anyExtraCrit", UrlMsg, <<>>)}
    \cup {Node("anyExtraNonCrit", UrlMsg, k) : k \in {<<>>, <<Leaf("varint")>>}}
    \cup (IF desc = "TxBody"
          THEN {Node("extOpt", UrlMsg, <<>>), Node("ncExtOpt", UrlMsg, <<>>)}
          ELSE {})

RECURSIVE InnerFieldsAt(_)
RECURSIVE AnyNodesAt(_)
\* the envelope nodes of at most d wrappers
AnyNodesAt(d) ==
    IF d = 0 THEN {}
    ELSE {Node("any", UrlUnknown, <<>>)}
         \cup {Node("any", UrlMsg, k) :
                 k \in {<<>>} \cup {<<f>> : f \in InnerFieldsAt(d - 1)}}
         \cup {Node("any", UrlAny, k) :
                 k \in {<<>>} \cup {<<a>> : a \in AnyNodesAt(d - 1)}}

\* the fields a message inside wrappers may hold, with at most d wrappers
\* below it
InnerFieldsAt(d) ==
    InnerLeaves
    \cup (IF d = 0 THEN {}
          ELSE AnyNodesAt(d)
               \cup {Node("nested", <<>>, k) :
                       k \in {<<>>} \cup {<<f>> : f \in InnerFieldsAt(d - 1)}})

\* the fields of wrapper depth <= d a root message of descriptor desc may hold
FieldsAt(d, desc) ==
    Leaves(desc)
    \cup (IF d = 0 THEN {}
          ELSE AnyNodesAt(d) \cup TerminalAnys(desc)
               \cup (IF desc = "Msg"
                     THEN {Node("nested", <<>>, k) :
                             k \in {<<>>} \cup {<<f>> : f \in InnerFieldsAt(d - 1)}}
                     ELSE {}))

\* s with x inserted before position i
InsertAt(s, i, x) == Take(s, i - 1) \o <<x>> \o Drop(s, i - 1)

\* root messages: up to MaxFields fields, at most one of them not a sibling leaf
RootMsgs(desc) ==
    UNION {[1..n -> SiblingLeaves] : n \in 0..MaxFields}
    \cup UNION {{InsertAt(s, i, f) : s \in [1..(n - 1) -> SiblingLeaves], i \in 1..n,
                                     f \in FieldsAt(MaxDepth, desc)} : n \in 1..MaxFields}

(***************************************************************************)
(* State.                                                                  *)
(*   in    : the call under way: entry point, allowUnknownNonCriticals,    *)
(*           root descriptor and the message tree the buffer encodes       *)
(*   stack : the frames of RejectUnknownFields, innermost last; a frame    *)
(*           holds the rest of its buffer (bz), its descriptor, its        *)
(*           hasUnknownNonCriticals, the point its caller resumes at and   *)
(*           the fieldBytes of the envelope it is checking                 *)
(*   ret   : the values the last finished frame returned                   *)
(*   pc    : "run" (innermost frame at its loop), "ret" (a frame has just  *)
(*           returned), "build" (GetSignBytes after the validation),       *)
(*           "done", "panic"                                               *)
(*   out   : what the entry point returned                                 *)
(*   sign  : GetSignBytes: the signer data and auth info it was called     *)
(*           with and the sign document it built                           *)
(*   results : sortJSON called on its own: what the calls made so far      *)
(*           returned                                                      *)
(*   accounts : the vesting msgServer: the account keeper's store, the     *)
(*           account of each address or none                               *)
(*   balances : the vesting msgServer: the bank keeper's balance of each   *)
(*           address, in the one denomination of the model                 *)
(*   batch : the sqlite Batch: its fields (ops, size, version, tx)         *)
(*   db    : the sqlite Batch: the database, its transactions and the      *)
(*           statements of the committed ones                              *)
(***************************************************************************)
VARIABLES in, stack, ret, pc, out, sign, results, accounts, balances, batch, db

vars == <<in, stack, ret, pc, out, sign, results, accounts, balances, batch, db>>

\* the variables the validator and GetSignBytes have no part in
decodeIdle == <<results, accounts, balances, batch, db>>

Top == stack[Len(stack)]

Pop == Take(stack, Len(stack) - 1)

NewFrame(bz, desc) ==
    [bz |-> bz, desc |-> desc, has |-> FALSE, at |-> "loop", fieldBytes |-> <<>>]

NoOut == [has |-> FALSE, err |-> "nil", signed |-> FALSE, bz |-> <<>>]

\* GetSignBytes not yet past the validation
NoSign ==
    [called |-> FALSE, built |-> FALSE, signerData |-> <<>>, fee |-> <<>>, tip |-> <<>>,
     signDoc |-> <<>>]

\* messages of a body that holds several
SimpleMsgs ==
    {Node("any", UrlMsg, <<>>), Node("any", UrlMsg, <<Leaf("varint")>>),
     Node("any", UrlAny, <<>>)}

\* bodies of two to MaxFields messages
MessageBodies == UNION {[1..n -> SimpleMsgs] : n \in 2..MaxFields}

Entries ==
    {[entry |-> "RejectUnknownFields", allow |-> a, desc |-> "Msg", msg |-> m] :
        a \in BOOLEAN, m \in RootMsgs("Msg")}
    \cup {[entry |-> "RejectUnknownFieldsStrict", allow |-> FALSE, desc |-> "Msg",
           msg |-> m] : m \in RootMsgs("Msg")}
    \cup {[entry |-> "GetSignBytes", allow |-> FALSE, desc |-> "TxBody", msg |-> m] :
            m \in RootMsgs("TxBody") \cup MessageBodies}

Init ==
    /\ in \in Entries
    /\ stack = <<NewFrame(EncodeMsg(in.msg, in.desc), in.desc)>>
    /\ ret = [has |-> FALSE, err |-> "nil"]
    /\ pc = "run"
    /\ out = NoOut
    /\ sign = NoSign
    /\ results = <<>>
    /\ accounts = <<>>
    /\ balances = <<>>
    /\ batch = <<>>
    /\ db = <<>>

(***************************************************************************)
(* One iteration of the loop of RejectUnknownFields in frame f, up to the  *)
(* next iteration, the return or the recursive call.                       *)
(***************************************************************************)
Returns(has, err) ==
    [kind |-> "return", has |-> has, err |-> err, bz |-> <<>>, fieldBytes |-> <<>>,
     callDesc |-> "", at |-> "loop"]

Continues(has, bz) ==
    [kind |-> "continue", has |-> has, err |-> "nil", bz |-> bz, fieldBytes |-> <<>>,
     callDesc |-> "", at |-> "loop"]

Calls(has, bz, fieldBytes, desc, at) ==
    [kind |-> "call", has |-> has, err |-> "nil", bz |-> bz, fieldBytes |-> fieldBytes,
     callDesc |-> desc, at |-> at]

\* the lookup that leaves the flag as it was
FlagAfterLookup_Unset(has, known, num) == has

\* hasUnknownNonCriticals after the lookup of tag number num
FlagAfterLookup(has, known, num) == IF ~known /\ ~isCriticalField(num) THEN TRUE ELSE has

\* every unknown field is reported, allowUnknownNonCriticals ignored
RejectsUnknown_Always(num, allow) == TRUE

\* unknown fields are reported by allowUnknownNonCriticals alone, the
\* criticality of the number ignored
RejectsUnknown_StrictOnly(num, allow) == ~allow

\* the unknown field is reported: it is critical or non-criticals are not allowed
RejectsUnknown(num, allow) == isCriticalField(num) \/ ~allow

\* the known field read: wire type check, then the recursion into a message
KnownField(f, has, num, typ, fieldBytes, rest) ==
    IF ~isWireTypeAssignable(typ, FieldKind(f.desc, num))
    THEN Returns(has, "invalid wire type")
    ELSE IF FieldMessage(f.desc, num) = ""
    THEN Continues(has, rest)
    ELSE IF FieldMessage(f.desc, num) = anyFullName
    THEN Calls(has, rest, Drop(fieldBytes, ConsumeVarint(fieldBytes).n), anyDesc, "any")
    ELSE Calls(has, rest, Drop(fieldBytes, ConsumeVarint(fieldBytes).n),
               FieldMessage(f.desc, num), "child")

\* the field value read: n bytes at the head of bz1
AfterValue(f, has, known, t, bz1, n) ==
    IF n < 0 THEN Returns(has, "could not consume field value")
    ELSE IF ~known THEN Continues(has, Drop(bz1, n))
    ELSE KnownField(f, has, t.num, t.typ, Take(bz1, n), Drop(bz1, n))

\* the tag read and looked up in the descriptor
AfterLookup(f, allow, t, known, has) ==
    IF ~known /\ RejectsUnknown(t.num, allow)
    THEN Returns(has, "ErrUnknownField")
    ELSE AfterValue(f, has, known, t, Drop(f.bz, t.n),
                    ConsumeFieldValue(t.num, t.typ, Drop(f.bz, t.n)))

AfterTag(f, allow, t) ==
    IF t.n < 0 THEN Returns(f.has, "invalid length")
    ELSE AfterLookup(f, allow, t, HasField(f.desc, t.num),
                     FlagAfterLookup(f.has, HasField(f.desc, t.num), t.num))

Iteration(f, allow) == AfterTag(f, allow, ConsumeTag(f.bz))

\* the flag of the recursive call is dropped
OrFlag_ChildDropped(has, child) == has

\* the caller's flag after a recursive call returned child
OrFlag(has, child) == has \/ child

\* the envelope whose type URL does not resolve is passed over, its payload
\* unread
AfterAnyCheck_SkipUnresolved(f, r) ==
    IF r.err # "nil" THEN Returns(f.has \/ r.has, r.err)
    ELSE IF UnmarshalAny(f.fieldBytes, EmptyAny).err # "nil"
    THEN Returns(f.has \/ r.has, UnmarshalAny(f.fieldBytes, EmptyAny).err)
    ELSE IF FindDescriptorByName(MessageNameFromTypeURL(
                UnmarshalAny(f.fieldBytes, EmptyAny).TypeUrl)).err # "nil"
    THEN Continues(f.has \/ r.has, f.bz)
    ELSE IF ~FindDescriptorByName(MessageNameFromTypeURL(
                 UnmarshalAny(f.fieldBytes, EmptyAny).TypeUrl)).isMessage
    THEN [Returns(f.has \/ r.has, "panic") EXCEPT !.kind = "panic"]
    ELSE Calls(f.has \/ r.has, f.bz, UnmarshalAny(f.fieldBytes, EmptyAny).Value,
               FindDescriptorByName(MessageNameFromTypeURL(
                   UnmarshalAny(f.fieldBytes, EmptyAny).TypeUrl)).desc, "child")

\* an envelope after the check of its wrapper: decode it, resolve its type
\* URL and walk the payload with the resolved descriptor
AfterAnyCheck(f, r) ==
    LET has == OrFlag(f.has, r.has)
        a == UnmarshalAny(f.fieldBytes, EmptyAny)
        d == FindDescriptorByName(MessageNameFromTypeURL(a.TypeUrl))
    IN IF r.err # "nil" THEN Returns(has, r.err)
       ELSE IF a.err # "nil" THEN Returns(has, a.err)
       ELSE IF d.err # "nil" THEN Returns(has, d.err)
       ELSE IF ~d.isMessage
       THEN [Returns(has, "panic") EXCEPT !.kind = "panic"]
       ELSE Calls(has, f.bz, a.Value, d.desc, "child")

\* a message field after the walk of its bytes
AfterChild(f, r) ==
    LET has == OrFlag(f.has, r.has)
    IN IF r.err # "nil" THEN Returns(has, r.err) ELSE Continues(has, f.bz)

\* the effect of a step result r on the stack
Apply(r) ==
    CASE r.kind = "return" ->
           /\ stack' = Pop
           /\ ret' = [has |-> r.has, err |-> r.err]
           /\ pc' = "ret"
      [] r.kind = "continue" ->
           /\ stack' = Append(Pop, [Top EXCEPT !.bz = r.bz, !.has = r.has, !.at = "loop",
                                               !.fieldBytes = <<>>])
           /\ ret' = ret
           /\ pc' = "run"
      [] r.kind = "call" ->
           /\ stack' = Append(Append(Pop, [Top EXCEPT !.bz = r.bz, !.has = r.has,
                                                      !.at = r.at,
                                                      !.fieldBytes = r.fieldBytes]),
                              NewFrame(r.fieldBytes, r.callDesc))
           /\ ret' = ret
           /\ pc' = "run"
      [] r.kind = "panic" ->
           /\ stack' = stack
           /\ ret' = ret
           /\ pc' = "panic"

\* len(bz) == 0 on entry, or the loop has used the buffer up
ReturnEmpty ==
    /\ pc = "run"
    /\ Top.bz = <<>>
    /\ Apply(Returns(Top.has, "nil"))
    /\ UNCHANGED <<in, out, sign>>
    /\ UNCHANGED decodeIdle

Iterate ==
    /\ pc = "run"
    /\ Top.bz # <<>>
    /\ Apply(Iteration(Top, in.allow))
    /\ UNCHANGED <<in, out, sign>>
    /\ UNCHANGED decodeIdle

ResumeAny ==
    /\ pc = "ret"
    /\ stack # <<>>
    /\ Top.at = "any"
    /\ Apply(AfterAnyCheck(Top, ret))
    /\ UNCHANGED <<in, out, sign>>
    /\ UNCHANGED decodeIdle

ResumeChild ==
    /\ pc = "ret"
    /\ stack # <<>>
    /\ Top.at = "child"
    /\ Apply(AfterChild(Top, ret))
    /\ UNCHANGED <<in, out, sign>>
    /\ UNCHANGED decodeIdle

\* RejectUnknownFields returns to its caller
ReturnRejectUnknownFields ==
    /\ pc = "ret"
    /\ stack = <<>>
    /\ in.entry = "RejectUnknownFields"
    /\ out' = [NoOut EXCEPT !.has = ret.has, !.err = ret.err]
    /\ pc' = "done"
    /\ UNCHANGED <<in, stack, ret, sign>>
    /\ UNCHANGED decodeIdle

\* RejectUnknownFieldsStrict drops the flag and returns the error
ReturnRejectUnknownFieldsStrict ==
    /\ pc = "ret"
    /\ stack = <<>>
    /\ in.entry = "RejectUnknownFieldsStrict"
    /\ out' = [NoOut EXCEPT !.err = ret.err]
    /\ pc' = "done"
    /\ UNCHANGED <<in, stack, ret, sign>>
    /\ UNCHANGED decodeIdle

(***************************************************************************)
(* GetSignBytes (SIGN_MODE_LEGACY_AMINO_JSON).  The decoded body is the    *)
(* body the raw bytes encode.  A JSON value is a record                    *)
(*   [k, t, s, n, raw, items]: key k in its object ("" at the top), type t *)
(*   ("str": string s; "dec": the decimal string of n; "raw": an encoded   *)
(*   message; "arr" and "obj": items).                                     *)
(***************************************************************************)
JStr(k, s) ==
    [k |-> k, t |-> "str", s |-> s, n |-> 0, raw |-> <<>>, e |-> <<>>, items |-> <<>>]

JDec(k, n) ==
    [k |-> k, t |-> "dec", s |-> <<>>, n |-> n, raw |-> <<>>, e |-> <<>>, items |-> <<>>]

JRaw(k, b) ==
    [k |-> k, t |-> "raw", s |-> <<>>, n |-> 0, raw |-> b, e |-> <<>>, items |-> <<>>]

JArr(k, items) ==
    [k |-> k, t |-> "arr", s |-> <<>>, n |-> 0, raw |-> <<>>, e |-> <<>>, items |-> items]

JObj(k, items) ==
    [k |-> k, t |-> "obj", s |-> <<>>, n |-> 0, raw |-> <<>>, e |-> <<>>, items |-> items]

\* a number literal: integer part i, fraction digits f, exponent e (<<>>: none)
JNum(k, i, f, e) ==
    [k |-> k, t |-> "num", s |-> <<>>, n |-> i, raw |-> f, e |-> e, items |-> <<>>]

\* true, false or null
JLit(k, word) ==
    [k |-> k, t |-> "lit", s |-> <<word>>, n |-> 0, raw |-> <<>>, e |-> <<>>, items |-> <<>>]

\* text that is not JSON
JBad(k) ==
    [k |-> k, t |-> "bad", s |-> <<>>, n |-> 0, raw |-> <<>>, e |-> <<>>, items |-> <<>>]

\* a Go string without characters to escape, as the text of a JSON string
Chunks(str) == IF str = "" THEN <<>> ELSE <<str>>

\* the keys of the documents in ascending byte order
KeyOrder ==
    <<"a", "account_number", "amount", "b", "c", "chain_id", "fee", "gas", "granter",
      "memo", "msgs", "payer", "sequence", "timeout_height">>

KeyRank(k) == CHOOSE i \in 1..Len(KeyOrder) : KeyOrder[i] = k

RECURSIVE SelectSeqBy(_, _)
\* the elements of s whose role is in roles, in order
SelectSeqBy(s, roles) ==
    IF s = <<>> THEN <<>>
    ELSE (IF s[1].role \in roles THEN <<s[1]>> ELSE <<>>) \o SelectSeqBy(Drop(s, 1), roles)

\* txData.Body: the body decoded from the raw bytes
DecodedBody(msg) ==
    [Messages |-> SelectSeqBy(msg, {"any", "anyExtraCrit", "anyExtraNonCrit"}),
     Memo |-> IF SelectSeqBy(msg, {"string"}) = <<>> THEN "" ELSE "h",
     TimeoutHeight |-> IF SelectSeqBy(msg, {"varint"}) = <<>> THEN 0 ELSE 1,
     ExtensionOptions |-> SelectSeqBy(msg, {"extOpt"}),
     NonCriticalExtensionOptions |-> SelectSeqBy(msg, {"ncExtOpt"})]

NoFee == [present |-> FALSE, Amount |-> <<>>, GasLimit |-> 0, Payer |-> "", Granter |-> ""]

NoTip == [present |-> FALSE, Tipper |-> "", Amount |-> <<>>]

Addresses == {"", "alice", "bob"}

SignerDatas ==
    [Address : Addresses, ChainId : {"test-1"}, AccountNumber : {7}, Sequence : {3}]

Fees ==
    {NoFee}
    \cup [present : {TRUE}, Amount : {<<>>, <<100>>}, GasLimit : {200000},
          Payer : {"", "bob"}, Granter : {""}]

Tips == {NoTip} \cup [present : {TRUE}, Tipper : Addresses, Amount : {<<>>, <<5>>}]

\* the declared fee copied whoever signs
SignFee_AlwaysDeclared(signerData, fee, tip) ==
    [Amount |-> fee.Amount, Gas |-> fee.GasLimit, Payer |-> fee.Payer,
     Granter |-> fee.Granter]

\* the copy of the declared fee without its payer
SignFee_NoPayer(signerData, fee, tip) ==
    IF tip.present /\ tip.Tipper = signerData.Address
    THEN [Amount |-> <<>>, Gas |-> 0, Payer |-> "", Granter |-> ""]
    ELSE [Amount |-> fee.Amount, Gas |-> fee.GasLimit, Payer |-> "",
          Granter |-> fee.Granter]

\* the tipper's fee is the amount of the tip
SignFee_TipAmount(signerData, fee, tip) ==
    IF tip.present /\ tip.Tipper = signerData.Address
    THEN [Amount |-> tip.Amount, Gas |-> 0, Payer |-> "", Granter |-> ""]
    ELSE [Amount |-> fee.Amount, Gas |-> fee.GasLimit, Payer |-> fee.Payer,
          Granter |-> fee.Granter]

\* the fee of the sign document
SignFee(signerData, fee, tip) ==
    IF tip.present /\ tip.Tipper = signerData.Address
    THEN [Amount |-> <<>>, Gas |-> 0, Payer |-> "", Granter |-> ""]
    ELSE [Amount |-> fee.Amount, Gas |-> fee.GasLimit, Payer |-> fee.Payer,
          Granter |-> fee.Granter]

\* the request checks with the non-critical extension options not looked at
BuildError_CriticalOnly(body, signerData, fee, tip) ==
    IF Len(body.ExtensionOptions) > 0
    THEN "does not support protobuf extension options"
    ELSE IF signerData.Address = "" THEN "got empty address"
    ELSE IF tip.present /\ tip.Tipper = "" THEN "tipper cannot be empty"
    ELSE IF ~(tip.present /\ tip.Tipper = signerData.Address) /\ ~fee.present
    THEN "fee cannot be nil when tipper is not signer"
    ELSE "nil"

\* the request checks without the check of the tipper
BuildError_NoTipperCheck(body, signerData, fee, tip) ==
    IF Len(body.ExtensionOptions) > 0 \/ Len(body.NonCriticalExtensionOptions) > 0
    THEN "does not support protobuf extension options"
    ELSE IF signerData.Address = "" THEN "got empty address"
    ELSE IF ~(tip.present /\ tip.Tipper = signerData.Address) /\ ~fee.present
    THEN "fee cannot be nil when tipper is not signer"
    ELSE "nil"

\* the context error of GetSignBytes after the validation, "nil" when none
BuildError(body, signerData, fee, tip) ==
    IF Len(body.ExtensionOptions) > 0 \/ Len(body.NonCriticalExtensionOptions) > 0
    THEN "does not support protobuf extension options"
    ELSE IF signerData.Address = "" THEN "got empty address"
    ELSE IF tip.present /\ tip.Tipper = "" THEN "tipper cannot be empty"
    ELSE IF ~(tip.present /\ tip.Tipper = signerData.Address) /\ ~fee.present
    THEN "fee cannot be nil when tipper is not signer"
    ELSE "nil"

\* the sign document with the messages in reverse order
SignDoc_ReversedMsgs(body, signerData, fee, tip) ==
    [AccountNumber |-> signerData.AccountNumber,
     TimeoutHeight |-> body.TimeoutHeight,
     ChainId |-> signerData.ChainId,
     Sequence |-> signerData.Sequence,
     Memo |-> body.Memo,
     Msgs |-> [i \in 1..Len(body.Messages) |-> body.Messages[Len(body.Messages) + 1 - i]],
     Fee |-> SignFee(signerData, fee, tip)]

SignDoc(body, signerData, fee, tip) ==
    [AccountNumber |-> signerData.AccountNumber,
     TimeoutHeight |-> body.TimeoutHeight,
     ChainId |-> signerData.ChainId,
     Sequence |-> signerData.Sequence,
     Memo |-> body.Memo,
     Msgs |-> body.Messages,
     Fee |-> SignFee(signerData, fee, tip)]

\* encoder.Marshal: the document as JSON text, fields in declaration order,
\* empty payer and granter left out
Marshal(doc) ==
    JObj("",
      << JDec("account_number", doc.AccountNumber),
         JDec("timeout_height", doc.TimeoutHeight),
         JStr("chain_id", Chunks(doc.ChainId)),
         JDec("sequence", doc.Sequence),
         JStr("memo", Chunks(doc.Memo)),
         JArr("msgs", [i \in 1..Len(doc.Msgs) |-> JRaw("", AnyBody(doc.Msgs[i]))]),
         JObj("fee",
           << JArr("amount", [i \in 1..Len(doc.Fee.Amount) |-> JDec("", doc.Fee.Amount[i])]),
              JDec("gas", doc.Fee.Gas) >>
           \o (IF doc.Fee.Payer = "" THEN <<>> ELSE <<JStr("payer", Chunks(doc.Fee.Payer))>>)
           \o (IF doc.Fee.Granter = "" THEN <<>> ELSE <<JStr("granter", Chunks(doc.Fee.Granter))>>))
      >>)

(***************************************************************************)
(* sortJSON: json.Unmarshal into interface{}, json.Marshal of the result.  *)
(* The generic value is a record with t = "map" (m: a function of the      *)
(* decoded keys), "slice", "string" (the decoded characters), "float64"    *)
(* (the value m * 10^x, m without trailing zeros), "lit" or "text" (a      *)
(* string the encoder wrote, which holds nothing to escape).               *)
(***************************************************************************)
\* the character a token of a string literal stands for
Unquote(tok) ==
    CASE tok = "\\u0061" -> "a"
      [] tok = "\\/" -> "/"
      [] tok = "\\u003c" -> "<"
      [] OTHER -> tok

\* the token json.Marshal writes for a character (HTML escaping on)
Quote(ch) ==
    CASE ch = "<" -> "\\u003c"
      [] ch = ">" -> "\\u003e"
      [] ch = "&" -> "\\u0026"
      [] OTHER -> ch

RECURSIVE Pow10(_)
Pow10(n) == IF n = 0 THEN 1 ELSE 10 * Pow10(n - 1)

RECURSIVE DigitsToInt(_)
DigitsToInt(f) ==
    IF f = <<>> THEN 0 ELSE 10 * DigitsToInt(Take(f, Len(f) - 1)) + f[Len(f)]

\* the n decimal digits of v
IntToDigits(v, n) == [i \in 1..n |-> (v \div Pow10(n - i)) % 10]

RECURSIVE StripZeros(_, _)
\* m * 10^x with the trailing zeros of m moved into x
StripZeros(m, x) ==
    IF m = 0 THEN [m |-> 0, x |-> 0]
    ELSE IF m % 10 = 0 THEN StripZeros(m \div 10, x + 1)
    ELSE [m |-> m, x |-> x]

\* strconv.ParseFloat of the literal i.f e
ParseFloat(i, f, e) ==
    StripZeros(i * Pow10(Len(f)) + DigitsToInt(f),
               (IF e = <<>> THEN 0 ELSE e[1]) - Len(f))

\* the formatter with the decimal point one place off
FormatFloat_Shifted(k, m, x) ==
    IF x >= 0 THEN JNum(k, m * Pow10(x + 1), <<>>, <<>>)
    ELSE JNum(k, m \div Pow10(-x), IntToDigits(m % Pow10(-x), -x), <<>>)

\* the shortest decimal text of a float64 with 1e-6 <= v < 1e21
FormatFloat(k, m, x) ==
    IF x >= 0 THEN JNum(k, m * Pow10(x), <<>>, <<>>)
    ELSE JNum(k, m \div Pow10(-x), IntToDigits(m % Pow10(-x), -x), <<>>)

\* the last item of items whose key stands for d
LastIndexOfKey(items, d) ==
    CHOOSE i \in 1..Len(items) :
       /\ Unquote(items[i].k) = d
       /\ \A h \in (i + 1)..Len(items) : Unquote(items[h].k) # d

RECURSIVE ValidJSON(_)
ValidJSON(j) == j.t # "bad" /\ \A i \in 1..Len(j.items) : ValidJSON(j.items[i])

RECURSIVE jsonUnmarshal(_)
\* json.Unmarshal(text, &c) with c interface{}: a repeated key keeps its
\* last value, numbers become float64
jsonUnmarshal(j) ==
    CASE j.t = "obj" ->
           [t |-> "map",
            m |-> [d \in {Unquote(j.items[i].k) : i \in 1..Len(j.items)} |->
                     jsonUnmarshal(j.items[LastIndexOfKey(j.items, d)])]]
      [] j.t = "arr" ->
           [t |-> "slice", items |-> [i \in 1..Len(j.items) |-> jsonUnmarshal(j.items[i])]]
      [] j.t = "str" -> [t |-> "string", chars |-> [i \in 1..Len(j.s) |-> Unquote(j.s[i])]]
      [] j.t = "num" ->
           [t |-> "float64", m |-> ParseFloat(j.n, j.raw, j.e).m,
            x |-> ParseFloat(j.n, j.raw, j.e).x]
      [] j.t = "lit" -> [t |-> "lit", word |-> j.s[1]]
      [] OTHER -> [t |-> "text", j |-> [j EXCEPT !.k = ""]]

\* the keys of S in ascending order
SortedKeys(S) == SelectSeq(KeyOrder, LAMBDA k : k \in S)

RECURSIVE jsonMarshal(_, _)
\* json.Marshal(c), written under key k: map keys sorted
jsonMarshal(c, k) ==
    CASE c.t = "map" ->
           JObj(k, [i \in 1..Len(SortedKeys(DOMAIN c.m)) |->
                      jsonMarshal(c.m[SortedKeys(DOMAIN c.m)[i]],
                                  Quote(SortedKeys(DOMAIN c.m)[i]))])
      [] c.t = "slice" ->
           JArr(k, [i \in 1..Len(c.items) |-> jsonMarshal(c.items[i], "")])
      [] c.t = "string" -> JStr(k, [i \in 1..Len(c.chars) |-> Quote(c.chars[i])])
      [] c.t = "float64" -> FormatFloat(k, c.m, c.x)
      [] c.t = "lit" -> JLit(k, c.word)
      [] OTHER -> [c.j EXCEPT !.k = k]

\* the input handed back unsorted
sortJSON_Unsorted(j) ==
    IF ~ValidJSON(j) THEN [js |-> <<>>, err |-> "invalid character"]
    ELSE [js |-> j, err |-> "nil"]

\* sortJSON(toSortJSON): the sorted text, or the error of json.Unmarshal
sortJSON(j) ==
    IF ~ValidJSON(j) THEN [js |-> <<>>, err |-> "invalid character"]
    ELSE [js |-> jsonMarshal(jsonUnmarshal(j), j.k), err |-> "nil"]

\* GetSignBytes after the call of RejectUnknownFields: its error ends it
GetSignBytesValidated ==
    /\ pc = "ret"
    /\ stack = <<>>
    /\ in.entry = "GetSignBytes"
    /\ IF ret.err # "nil"
       THEN /\ out' = [NoOut EXCEPT !.err = ret.err]
            /\ pc' = "done"
       ELSE /\ out' = out
            /\ pc' = "build"
    /\ UNCHANGED <<in, stack, ret, sign>>
    /\ UNCHANGED decodeIdle

\* GetSignBytes from the extension-option check to the sorted sign bytes;
\* signerData and txData.AuthInfo are chosen here, where they are first read
GetSignBytesBuild ==
    /\ pc = "build"
    /\ \E signerData \in SignerDatas, fee \in Fees, tip \in Tips :
         IF BuildError(DecodedBody(in.msg), signerData, fee, tip) # "nil"
         THEN /\ out' = [NoOut EXCEPT
                           !.err = BuildError(DecodedBody(in.msg), signerData, fee, tip)]
              /\ sign' = [NoSign EXCEPT !.called = TRUE, !.signerData = signerData,
                                        !.fee = fee, !.tip = tip]
         ELSE /\ sign' = [called |-> TRUE, built |-> TRUE, signerData |-> signerData,
                          fee |-> fee, tip |-> tip,
                          signDoc |-> SignDoc(DecodedBody(in.msg), signerData, fee, tip)]
              /\ out' = [NoOut EXCEPT
                           !.signed = sortJSON(Marshal(sign'.signDoc)).err = "nil",
                           !.err = sortJSON(Marshal(sign'.signDoc)).err,
                           !.bz = sortJSON(Marshal(sign'.signDoc)).js]
    /\ pc' = "done"
    /\ UNCHANGED <<in, stack, ret>>
    /\ UNCHANGED decodeIdle

Next ==
    \/ ReturnEmpty
    \/ Iterate
    \/ ResumeAny
    \/ ResumeChild
    \/ ReturnRejectUnknownFields
    \/ ReturnRejectUnknownFieldsStrict
    \/ GetSignBytesValidated
    \/ GetSignBytesBuild

Spec == Init /\ [][Next]_vars

(***************************************************************************)
(* The two validation modes on one buffer: RejectUnknownFieldsStrict, and  *)
(* when it has returned RejectUnknownFields with allowUnknownNonCriticals  *)
(* set.  results holds what the strict call returned.                      *)
(***************************************************************************)
ModeEntries ==
    {[entry |-> "RejectUnknownFieldsStrict", allow |-> FALSE, desc |-> "Msg",
      msg |-> m] : m \in RootMsgs("Msg")}

InitModes ==
    /\ in \in ModeEntries
    /\ stack = <<NewFrame(EncodeMsg(in.msg, in.desc), in.desc)>>
    /\ ret = [has |-> FALSE, err |-> "nil"]
    /\ pc = "run"
    /\ out = NoOut
    /\ sign = NoSign
    /\ results = <<>>
    /\ accounts = <<>>
    /\ balances = <<>>
    /\ batch = <<>>
    /\ db = <<>>

\* RejectUnknownFieldsStrict returns the error alone; the same buffer is
\* handed to RejectUnknownFields with allowUnknownNonCriticals = true
StrictThenPermissive ==
    /\ pc = "ret"
    /\ stack = <<>>
    /\ in.entry = "RejectUnknownFieldsStrict"
    /\ results = <<>>
    /\ results' = <<[NoOut EXCEPT !.err = ret.err]>>
    /\ in' = [in EXCEPT !.entry = "RejectUnknownFields", !.allow = TRUE]
    /\ stack' = <<NewFrame(EncodeMsg(in.msg, in.desc), in.desc)>>
    /\ ret' = [has |-> FALSE, err |-> "nil"]
    /\ pc' = "run"
    /\ UNCHANGED <<out, sign, accounts, balances, batch, db>>

NextModes ==
    \/ ReturnEmpty
    \/ Iterate
    \/ ResumeAny
    \/ ResumeChild
    \/ StrictThenPermissive
    \/ ReturnRejectUnknownFields

SpecModes == InitModes /\ [][NextModes]_vars

(***************************************************************************)
(* sortJSON called on its own.  The documents: a mapping of up to          *)
(* MaxFields keys at the top, one of its values nested up to MaxDepth - 1  *)
(* levels; keys in and out of order, a key written twice (once escaped),   *)
(* number and string literals in several spellings, text that is no JSON.  *)
(***************************************************************************)
JsonLeaves(k) ==
    {JNum(k, 1, <<>>, <<>>), JNum(k, 1, <<0>>, <<>>), JNum(k, 1, <<>>, <<2>>),
     JStr(k, <<"a">>), JStr(k, <<"\\u0061">>), JStr(k, <<"<", "b">>), JLit(k, "null")}

\* the values beside the nested one
JsonSiblings(k) == {JNum(k, 2, <<>>, <<>>), JStr(k, <<"b">>)}

RECURSIVE JsonValuesAt(_, _)
\* the values under key k with at most d levels below them
JsonValuesAt(d, k) ==
    JsonLeaves(k)
    \cup (IF d = 0 THEN {}
          ELSE {JBad(k)}
               \cup {JObj(k, <<x, y>>) : x \in JsonValuesAt(d - 1, "b"),
                                         y \in JsonSiblings("a")}
               \cup {JObj(k, <<y, x>>) : y \in JsonSiblings("a"),
                                         x \in JsonValuesAt(d - 1, "\\u0061")}
               \cup {JArr(k, <<x, y>>) : x \in JsonValuesAt(d - 1, ""),
                                         y \in JsonSiblings("")})

\* the keys of a top-level mapping of n pairs, as written
KeySeqs(n) ==
    {[i \in 1..n |-> <<"c", "a", "b", "account_number">>[i]],
     [i \in 1..n |-> IF i = n /\ n > 1 THEN "\\u0061"
                     ELSE <<"a", "b", "c", "chain_id">>[i]]}

\* the documents of n pairs with the keys ks, the nested value at place p
JsonDocs(n, ks, p) ==
    {JObj("", [i \in 1..n |-> IF i = p THEN x ELSE y[i]]) :
        x \in JsonValuesAt(MaxDepth - 1, ks[p]),
        y \in {f \in [1..n -> UNION {JsonSiblings(ks[i]) : i \in 1..n}] :
                 \A i \in 1..n : f[i].k = ks[i]}}

Reverse(s) == [i \in 1..Len(s) |-> s[Len(s) + 1 - i]]

RotateLeft(s) == IF s = <<>> THEN s ELSE Drop(s, 1) \o <<s[1]>>

RECURSIVE ReverseKeys(_)
\* the document with the pairs of every mapping written in reverse order
ReverseKeys(j) ==
    CASE j.t = "obj" ->
           [j EXCEPT !.items = Reverse([i \in 1..Len(j.items) |-> ReverseKeys(j.items[i])])]
      [] j.t = "arr" -> [j EXCEPT !.items = [i \in 1..Len(j.items) |-> ReverseKeys(j.items[i])]]
      [] OTHER -> j

\* the same pairs in another order
Reorderings(j) == {ReverseKeys(j), [j EXCEPT !.items = RotateLeft(j.items)]}

InitSort ==
    /\ \E n \in 1..MaxFields :
         \E ks \in KeySeqs(n), p \in 1..n :
           \E d \in JsonDocs(n, ks, p) :
             \E o \in Reorderings(d) :
               in = [entry |-> "sortJSON", doc |-> d, other |-> o]
    /\ stack = <<>>
    /\ ret = [has |-> FALSE, err |-> "nil"]
    /\ pc = "sort"
    /\ out = NoOut
    /\ sign = NoSign
    /\ results = <<>>
    /\ accounts = <<>>
    /\ balances = <<>>
    /\ batch = <<>>
    /\ db = <<>>

\* sortJSON(doc)
SortDocument ==
    /\ pc = "sort"
    /\ results' = Append(results, sortJSON(in.doc))
    /\ pc' = "other"
    /\ UNCHANGED <<in, stack, ret, out, sign, accounts, balances, batch, db>>

\* sortJSON(other)
SortOther ==
    /\ pc = "other"
    /\ results' = Append(results, sortJSON(in.other))
    /\ pc' = "again"
    /\ UNCHANGED <<in, stack, ret, out, sign, accounts, balances, batch, db>>

\* sortJSON of what sortJSON(doc) returned
SortAgain ==
    /\ pc = "again"
    /\ results[1].err = "nil"
    /\ results' = Append(results, sortJSON(results[1].js))
    /\ pc' = "done"
    /\ UNCHANGED <<in, stack, ret, out, sign, accounts, balances, batch, db>>

NextSort ==
    \/ SortDocument
    \/ SortOther
    \/ SortAgain

SpecSort == InitSort /\ [][NextSort]_vars

(***************************************************************************)
(* The vesting msgServer: CreatePeriodicVestingAccount.                    *)
(*                                                                         *)
(* Coins are amounts of one denomination.  An address is its bech32 text.  *)
(* An account is a record; its kind is "nil" where the store has none.     *)
(***************************************************************************)
VestingAddrs == {"addr1", "addr2", "addr3"}

\* the address of a module account, which may not receive funds
BlockedAddrs == {"blocked"}

NoAccount == [kind |-> "nil"]

BaseAccount(addr) == [kind |-> "BaseAccount", Address |-> addr]

\* sdk.AccAddressFromBech32
AccAddressFromBech32(text) ==
    IF text \in VestingAddrs \cup BlockedAddrs
      THEN [addr |-> text, err |-> "nil"]
      ELSE [addr |-> "", err |-> "decoding bech32 failed"]

\* bk.BlockedAddr
BlockedAddr(addr) == addr \in BlockedAddrs

RECURSIVE SumAmounts(_)
\* totalCoins: the amounts of the periods added up
SumAmounts(periods) ==
    IF periods = <<>> THEN 0 ELSE Head(periods).Amount + SumAmounts(Tail(periods))

RECURSIVE SumLengths(_)
SumLengths(periods) ==
    IF periods = <<>> THEN 0 ELSE Head(periods).Length + SumLengths(Tail(periods))

\* types.NewPeriodicVestingAccount
NewPeriodicVestingAccount(baseAccount, originalVesting, startTime, periods) ==
    [kind |-> "PeriodicVestingAccount", Address |-> baseAccount.Address,
     OriginalVesting |-> originalVesting, StartTime |-> startTime,
     EndTime |-> startTime + SumLengths(periods), VestingPeriods |-> periods]

Min64(a, b) == IF a < b THEN a ELSE b

RECURSIVE MergePeriods(_, _, _, _, _)
\* the loops of types.DisjunctPeriods: the events of both schedules in the
\* order of their times, the amounts of simultaneous events added up
MergePeriods(timeP, timeQ, time, periodsP, periodsQ) ==
    IF periodsP = <<>> /\ periodsQ = <<>> THEN <<>>
    ELSE IF periodsQ = <<>>
           \/ (periodsP # <<>>
               /\ timeP + Head(periodsP).Length < timeQ + Head(periodsQ).Length)
      THEN <<[Length |-> timeP + Head(periodsP).Length - time,
              Amount |-> Head(periodsP).Amount]>>
           \o MergePeriods(timeP + Head(periodsP).Length, timeQ,
                           timeP + Head(periodsP).Length, Tail(periodsP), periodsQ)
    ELSE IF periodsP = <<>>
           \/ timeP + Head(periodsP).Length > timeQ + Head(periodsQ).Length
      THEN <<[Length |-> timeQ + Head(periodsQ).Length - time,
              Amount |-> Head(periodsQ).Amount]>>
           \o MergePeriods(timeP, timeQ + Head(periodsQ).Length,
                           timeQ + Head(periodsQ).Length, periodsP, Tail(periodsQ))
    ELSE <<[Length |-> timeP + Head(periodsP).Length - time,
            Amount |-> Head(periodsP).Amount + Head(periodsQ).Amount]>>
         \o MergePeriods(timeP + Head(periodsP).Length, timeQ + Head(periodsQ).Length,
                         timeP + Head(periodsP).Length, Tail(periodsP), Tail(periodsQ))

\* types.DisjunctPeriods
DisjunctPeriods(startP, startQ, periodsP, periodsQ) ==
    [StartTime |-> Min64(startP, startQ),
     EndTime |-> Min64(startP, startQ)
                   + SumLengths(MergePeriods(startP, startQ, Min64(startP, startQ),
                                             periodsP, periodsQ)),
     VestingPeriods |-> MergePeriods(startP, startQ, Min64(startP, startQ),
                                     periodsP, periodsQ)]

RECURSIVE VestedOfPeriods(_, _, _)
\* the amounts of the periods that have ended by blockTime
VestedOfPeriods(periods, currentPeriodStartTime, blockTime) ==
    IF periods = <<>> \/ blockTime - currentPeriodStartTime < Head(periods).Length
      THEN 0
      ELSE Head(periods).Amount
           + VestedOfPeriods(Tail(periods), currentPeriodStartTime + Head(periods).Length,
                             blockTime)

\* GetVestedCoins of a periodic vesting account
GetVestedCoins(acc, blockTime) ==
    IF blockTime <= acc.StartTime THEN 0
    ELSE IF blockTime >= acc.EndTime THEN acc.OriginalVesting
    ELSE VestedOfPeriods(acc.VestingPeriods, acc.StartTime, blockTime)

\* n / d rounded to the nearest integer, a half to the even one (sdk.Dec
\* RoundInt)
RoundHalfEven(n, d) ==
    IF 2 * (n % d) < d THEN n \div d
    ELSE IF 2 * (n % d) > d THEN (n \div d) + 1
    ELSE IF (n \div d) % 2 = 0 THEN n \div d
    ELSE (n \div d) + 1

\* GetVestedCoins of a continuous vesting account: the share of the time
\* between start and end that has passed
ContinuousVestedCoins(acc, blockTime) ==
    IF blockTime <= acc.StartTime THEN 0
    ELSE IF blockTime >= acc.EndTime THEN acc.OriginalVesting
    ELSE RoundHalfEven(acc.OriginalVesting * (blockTime - acc.StartTime),
                       acc.EndTime - acc.StartTime)

\* GetVestedCoins of a delayed vesting account: everything at the end time
DelayedVestedCoins(acc, blockTime) ==
    IF blockTime >= acc.EndTime THEN acc.OriginalVesting ELSE 0

\* ReadSchedule: the coins of a schedule released by blockTime
ReadSchedule(startTime, endTime, periods, totalCoins, blockTime) ==
    IF blockTime <= startTime THEN 0
    ELSE IF blockTime >= endTime THEN totalCoins
    ELSE VestedOfPeriods(periods, startTime, blockTime)

\* GetVestedOnly of a true vesting account: the vesting schedule alone
GetVestedOnly(acc, blockTime) ==
    ReadSchedule(acc.StartTime, acc.EndTime, acc.VestingPeriods, acc.OriginalVesting,
                 blockTime)

\* GetUnlockedOnly of a true vesting account: the lockup schedule alone
GetUnlockedOnly(acc, blockTime) ==
    ReadSchedule(acc.StartTime, acc.EndTime, acc.LockupPeriods, acc.OriginalVesting,
                 blockTime)

\* GetVestedCoins of a true vesting account: vested and unlocked
TrueVestedCoins(acc, blockTime) ==
    Min64(GetVestedOnly(acc, blockTime), GetUnlockedOnly(acc, blockTime))

\* GetVestedCoins of the account, whatever its kind
VestedCoinsOf(acc, blockTime) ==
    CASE acc.kind = "PeriodicVestingAccount" -> GetVestedCoins(acc, blockTime)
      [] acc.kind = "ContinuousVestingAccount" -> ContinuousVestedCoins(acc, blockTime)
      [] acc.kind = "DelayedVestingAccount" -> DelayedVestedCoins(acc, blockTime)
      [] acc.kind = "TrueVestingAccount" -> TrueVestedCoins(acc, blockTime)
      [] OTHER -> 0

\* LockedCoins: what the bank keeper holds back; nothing is delegated
LockedCoins(acc, blockTime) ==
    IF acc.kind \notin {"PeriodicVestingAccount", "ContinuousVestingAccount",
                        "DelayedVestingAccount", "TrueVestingAccount"}
      THEN 0
    ELSE IF acc.OriginalVesting > VestedCoinsOf(acc, blockTime)
      THEN acc.OriginalVesting - VestedCoinsOf(acc, blockTime)
    ELSE 0

\* bk.SendCoins: the unlocked coins of fromAddr are taken, then given to
\* toAddr; sending no coins takes nothing and checks nothing
SendCoins(accs, bals, fromAddr, toAddr, amt, blockTime) ==
    IF amt > 0 /\ bals[fromAddr] < LockedCoins(accs[fromAddr], blockTime) + amt
      THEN [balances |-> bals, err |-> "insufficient funds"]
      ELSE [balances |-> [[bals EXCEPT ![fromAddr] = @ - amt] EXCEPT ![toAddr] = @ + amt],
            err |-> "nil"]

\* what a handler hands back, and the stores it leaves
Handled(accs, bals, res, err) ==
    [accounts |-> accs, balances |-> bals, out |-> [res |-> res, err |-> err]]

\* the merge that overwrites the vesting total with the new grant
MergedAccount_GrantOnly(pva, msg) ==
    [pva EXCEPT
       !.StartTime = DisjunctPeriods(pva.StartTime, msg.StartTime, pva.VestingPeriods,
                                     msg.VestingPeriods).StartTime,
       !.EndTime = DisjunctPeriods(pva.StartTime, msg.StartTime, pva.VestingPeriods,
                                   msg.VestingPeriods).EndTime,
       !.VestingPeriods = DisjunctPeriods(pva.StartTime, msg.StartTime, pva.VestingPeriods,
                                          msg.VestingPeriods).VestingPeriods,
       !.OriginalVesting = SumAmounts(msg.VestingPeriods)]

\* the existing periodic vesting account with the grant of msg merged in
MergedAccount(pva, msg) ==
    [pva EXCEPT
       !.StartTime = DisjunctPeriods(pva.StartTime, msg.StartTime, pva.VestingPeriods,
                                     msg.VestingPeriods).StartTime,
       !.EndTime = DisjunctPeriods(pva.StartTime, msg.StartTime, pva.VestingPeriods,
                                   msg.VestingPeriods).EndTime,
       !.VestingPeriods = DisjunctPeriods(pva.StartTime, msg.StartTime, pva.VestingPeriods,
                                          msg.VestingPeriods).VestingPeriods,
       !.OriginalVesting = pva.OriginalVesting + SumAmounts(msg.VestingPeriods)]

\* CreatePeriodicVestingAccount from ak.SetAccount on: acc is stored, then
\* the coins are sent; a failed send returns after the account was stored
PeriodicAfterSetAccount(msg, to, acc, accs, bals, blockTime) ==
    IF SendCoins([accs EXCEPT ![to] = acc], bals, msg.FromAddress, to,
                 SumAmounts(msg.VestingPeriods), blockTime).err # "nil"
      THEN Handled([accs EXCEPT ![to] = acc], bals, "nil",
                   SendCoins([accs EXCEPT ![to] = acc], bals, msg.FromAddress, to,
                             SumAmounts(msg.VestingPeriods), blockTime).err)
      ELSE Handled([accs EXCEPT ![to] = acc],
                   SendCoins([accs EXCEPT ![to] = acc], bals, msg.FromAddress, to,
                             SumAmounts(msg.VestingPeriods), blockTime).balances,
                   "MsgCreatePeriodicVestingAccountResponse", "nil")

\* CreatePeriodicVestingAccount that replaces an account of another type by a
\* new periodic vesting account
CreatePeriodicVestingAccountResult_Replaces(msg, accs, bals, blockTime) ==
    IF AccAddressFromBech32(msg.FromAddress).err # "nil"
      THEN Handled(accs, bals, "nil", AccAddressFromBech32(msg.FromAddress).err)
    ELSE IF AccAddressFromBech32(msg.ToAddress).err # "nil"
      THEN Handled(accs, bals, "nil", AccAddressFromBech32(msg.ToAddress).err)
    ELSE IF BlockedAddr(msg.ToAddress)
      THEN Handled(accs, bals, "nil", "is not allowed to receive funds")
    ELSE IF accs[msg.ToAddress].kind # "nil" /\ ~msg.Merge
      THEN Handled(accs, bals, "nil", "already exists")
    ELSE IF accs[msg.ToAddress].kind = "PeriodicVestingAccount"
      THEN PeriodicAfterSetAccount(msg, msg.ToAddress,
                                   MergedAccount(accs[msg.ToAddress], msg),
                                   accs, bals, blockTime)
    ELSE PeriodicAfterSetAccount(msg, msg.ToAddress,
                                 NewPeriodicVestingAccount(BaseAccount(msg.ToAddress),
                                     SumAmounts(msg.VestingPeriods), msg.StartTime,
                                     msg.VestingPeriods),
                                 accs, bals, blockTime)

\* the handler CreatePeriodicVestingAccount as a function of the message, the
\* block time and the stores
CreatePeriodicVestingAccountResult(msg, accs, bals, blockTime) ==
    IF AccAddressFromBech32(msg.FromAddress).err # "nil"
      THEN Handled(accs, bals, "nil", AccAddressFromBech32(msg.FromAddress).err)
    ELSE IF AccAddressFromBech32(msg.ToAddress).err # "nil"
      THEN Handled(accs, bals, "nil", AccAddressFromBech32(msg.ToAddress).err)
    ELSE IF BlockedAddr(msg.ToAddress)
      THEN Handled(accs, bals, "nil", "is not allowed to receive funds")
    ELSE IF accs[msg.ToAddress].kind # "nil" /\ ~msg.Merge
      THEN Handled(accs, bals, "nil",
                   IF accs[msg.ToAddress].kind = "PeriodicVestingAccount"
                     THEN "already exists; consider using --merge"
                     ELSE "already exists")
    ELSE IF accs[msg.ToAddress].kind \notin {"nil", "PeriodicVestingAccount"}
      THEN Handled(accs, bals, "nil", "must be a periodic vesting account")
    ELSE IF accs[msg.ToAddress].kind = "PeriodicVestingAccount"
      THEN PeriodicAfterSetAccount(msg, msg.ToAddress,
                                   MergedAccount(accs[msg.ToAddress], msg),
                                   accs, bals, blockTime)
    ELSE PeriodicAfterSetAccount(msg, msg.ToAddress,
                                 NewPeriodicVestingAccount(BaseAccount(msg.ToAddress),
                                     SumAmounts(msg.VestingPeriods), msg.StartTime,
                                     msg.VestingPeriods),
                                 accs, bals, blockTime)

\* a handler from ak.SetAccount on: acc is stored, then amt is sent from the
\* funder; a failed send returns its error after the account was stored
StoreThenSend(from, to, acc, amt, response, accs, bals, blockTime) ==
    IF SendCoins([accs EXCEPT ![to] = acc], bals, from, to, amt, blockTime).err # "nil"
      THEN Handled([accs EXCEPT ![to] = acc], bals, "nil",
                   SendCoins([accs EXCEPT ![to] = acc], bals, from, to, amt,
                             blockTime).err)
      ELSE Handled([accs EXCEPT ![to] = acc],
                   SendCoins([accs EXCEPT ![to] = acc], bals, from, to, amt,
                             blockTime).balances,
                   response, "nil")

\* bk.IsSendEnabledCoins: an error if a coin of the list is of a
\* denomination whose sending is switched off
IsSendEnabledCoins(sendEnabled, amt) ==
    IF amt > 0 /\ ~sendEnabled THEN "transfers are currently disabled" ELSE "nil"

\* types.NewBaseVestingAccount
NewBaseVestingAccount(baseAccount, originalVesting, endTime) ==
    [Address |-> baseAccount.Address, OriginalVesting |-> originalVesting,
     EndTime |-> endTime]

\* types.NewDelayedVestingAccountRaw
NewDelayedVestingAccountRaw(bva) ==
    [kind |-> "DelayedVestingAccount", Address |-> bva.Address,
     OriginalVesting |-> bva.OriginalVesting, EndTime |-> bva.EndTime]

\* types.NewContinuousVestingAccountRaw
NewContinuousVestingAccountRaw(bva, startTime) ==
    [kind |-> "ContinuousVestingAccount", Address |-> bva.Address,
     OriginalVesting |-> bva.OriginalVesting, StartTime |-> startTime,
     EndTime |-> bva.EndTime]

\* CreateVestingAccount without the look-up of the recipient's account
CreateVestingAccountResult_NoLookup(msg, accs, bals, blockTime, sendEnabled) ==
    IF IsSendEnabledCoins(sendEnabled, msg.Amount) # "nil"
      THEN Handled(accs, bals, "nil", IsSendEnabledCoins(sendEnabled, msg.Amount))
    ELSE IF AccAddressFromBech32(msg.FromAddress).err # "nil"
      THEN Handled(accs, bals, "nil", AccAddressFromBech32(msg.FromAddress).err)
    ELSE IF AccAddressFromBech32(msg.ToAddress).err # "nil"
      THEN Handled(accs, bals, "nil", AccAddressFromBech32(msg.ToAddress).err)
    ELSE IF BlockedAddr(msg.ToAddress)
      THEN Handled(accs, bals, "nil", "is not allowed to receive funds")
    ELSE StoreThenSend(msg.FromAddress, msg.ToAddress,
                       NewDelayedVestingAccountRaw(
                           NewBaseVestingAccount(BaseAccount(msg.ToAddress), msg.Amount,
                                                 msg.EndTime)),
                       msg.Amount, "MsgCreateVestingAccountResponse", accs, bals,
                       blockTime)

\* the handler CreateVestingAccount as a function of the message, the block
\* time, the bank's send switch and the stores
CreateVestingAccountResult(msg, accs, bals, blockTime, sendEnabled) ==
    IF IsSendEnabledCoins(sendEnabled, msg.Amount) # "nil"
      THEN Handled(accs, bals, "nil", IsSendEnabledCoins(sendEnabled, msg.Amount))
    ELSE IF AccAddressFromBech32(msg.FromAddress).err # "nil"
      THEN Handled(accs, bals, "nil", AccAddressFromBech32(msg.FromAddress).err)
    ELSE IF AccAddressFromBech32(msg.ToAddress).err # "nil"
      THEN Handled(accs, bals, "nil", AccAddressFromBech32(msg.ToAddress).err)
    ELSE IF BlockedAddr(msg.ToAddress)
      THEN Handled(accs, bals, "nil", "is not allowed to receive funds")
    ELSE IF accs[msg.ToAddress].kind # "nil"
      THEN Handled(accs, bals, "nil", "already exists")
    ELSE StoreThenSend(msg.FromAddress, msg.ToAddress,
                       IF msg.Delayed
                         THEN NewDelayedVestingAccountRaw(
                                  NewBaseVestingAccount(BaseAccount(msg.ToAddress),
                                                        msg.Amount, msg.EndTime))
                         ELSE NewContinuousVestingAccountRaw(
                                  NewBaseVestingAccount(BaseAccount(msg.ToAddress),
                                                        msg.Amount, msg.EndTime),
                                  blockTime),
                       msg.Amount, "MsgCreateVestingAccountResponse", accs, bals,
                       blockTime)

max64(a, b) == IF a > b THEN a ELSE b

\* types.NewTrueVestingAccount: the constructor is not handed the funder, so
\* the account it builds has none
NewTrueVestingAccount(baseAccount, originalVesting, startTime, lockupPeriods, vestingPeriods) ==
    [kind |-> "TrueVestingAccount", Address |-> baseAccount.Address,
     OriginalVesting |-> originalVesting, FunderAddress |-> "",
     StartTime |-> startTime,
     EndTime |-> startTime + max64(SumLengths(lockupPeriods), SumLengths(vestingPeriods)),
     LockupPeriods |-> lockupPeriods, VestingPeriods |-> vestingPeriods]

\* the lockup periods of the message, an instant unlock where it has none
DefaultedLockup(msg) ==
    IF SumAmounts(msg.VestingPeriods) # 0 /\ Len(msg.LockupPeriods) = 0
      THEN <<[Length |-> 0, Amount |-> SumAmounts(msg.VestingPeriods)]>>
      ELSE msg.LockupPeriods

\* the vesting periods of the message, an instant vesting where it has none;
\* the lockup has already been defaulted
DefaultedVesting(msg) ==
    IF SumAmounts(DefaultedLockup(msg)) # 0 /\ Len(msg.VestingPeriods) = 0
      THEN <<[Length |-> 0, Amount |-> SumAmounts(DefaultedLockup(msg))]>>
      ELSE msg.VestingPeriods

\* the existing true vesting account with the grant merged in
MergedTrueAccount(pva, startTime, lockupPeriods, vestingPeriods) ==
    [pva EXCEPT
       !.StartTime = DisjunctPeriods(pva.StartTime, startTime, pva.LockupPeriods,
                                     lockupPeriods).StartTime,
       !.EndTime = max64(DisjunctPeriods(pva.StartTime, startTime, pva.LockupPeriods,
                                         lockupPeriods).EndTime,
                         DisjunctPeriods(pva.StartTime, startTime, pva.VestingPeriods,
                                         vestingPeriods).EndTime),
       !.LockupPeriods = DisjunctPeriods(pva.StartTime, startTime, pva.LockupPeriods,
                                         lockupPeriods).VestingPeriods,
       !.VestingPeriods = DisjunctPeriods(pva.StartTime, startTime, pva.VestingPeriods,
                                          vestingPeriods).VestingPeriods,
       !.OriginalVesting = pva.OriginalVesting + SumAmounts(vestingPeriods)]

\* the handler CreateTrueVestingAccount as a function of the message, the
\* block time and the stores
CreateTrueVestingAccountResult(msg, accs, bals, blockTime) ==
    IF AccAddressFromBech32(msg.FromAddress).err # "nil"
      THEN Handled(accs, bals, "nil", AccAddressFromBech32(msg.FromAddress).err)
    ELSE IF AccAddressFromBech32(msg.ToAddress).err # "nil"
      THEN Handled(accs, bals, "nil", AccAddressFromBech32(msg.ToAddress).err)
    ELSE IF BlockedAddr(msg.ToAddress)
      THEN Handled(accs, bals, "nil", "is not allowed to receive funds")
    ELSE IF SumAmounts(DefaultedVesting(msg)) # SumAmounts(DefaultedLockup(msg))
      THEN Handled(accs, bals, "nil", "lockup and vesting amounts must be equal")
    ELSE IF accs[msg.ToAddress].kind # "nil" /\ ~msg.Merge
      THEN Handled(accs, bals, "nil",
                   IF accs[msg.ToAddress].kind = "TrueVestingAccount"
                     THEN "already exists; consider using --merge"
                     ELSE "already exists")
    ELSE IF accs[msg.ToAddress].kind \notin {"nil", "TrueVestingAccount"}
      THEN Handled(accs, bals, "nil", "must be a true vesting account")
    ELSE IF accs[msg.ToAddress].kind = "TrueVestingAccount"
            /\ msg.FromAddress # accs[msg.ToAddress].FunderAddress
      THEN Handled(accs, bals, "nil", "can only accept grants from account")
    ELSE IF accs[msg.ToAddress].kind = "TrueVestingAccount"
            /\ DisjunctPeriods(accs[msg.ToAddress].StartTime, msg.StartTime,
                               accs[msg.ToAddress].LockupPeriods,
                               DefaultedLockup(msg)).StartTime
               # DisjunctPeriods(accs[msg.ToAddress].StartTime, msg.StartTime,
                                 accs[msg.ToAddress].VestingPeriods,
                                 DefaultedVesting(msg)).StartTime
      THEN Handled(accs, bals, "panic", "bad start time calculation")
    ELSE StoreThenSend(msg.FromAddress, msg.ToAddress,
                       IF accs[msg.ToAddress].kind = "TrueVestingAccount"
                         THEN MergedTrueAccount(accs[msg.ToAddress], msg.StartTime,
                                                DefaultedLockup(msg),
                                                DefaultedVesting(msg))
                         ELSE NewTrueVestingAccount(BaseAccount(msg.ToAddress),
                                                    SumAmounts(DefaultedVesting(msg)),
                                                    msg.StartTime, DefaultedLockup(msg),
                                                    DefaultedVesting(msg)),
                       SumAmounts(DefaultedVesting(msg)),
                       "MsgCreateTrueVestingAccountResponse", accs, bals, blockTime)

\* ak.GetAccount: the stored account, none for an address the store does
\* not know
GetAccount(accs, addr) == IF addr \in DOMAIN accs THEN accs[addr] ELSE NoAccount

RECURSIVE PassedPeriods(_, _, _)
\* the vesting periods that ended before clawbackTime; an event at the very
\* time of the clawback is clawed back
PassedPeriods(periods, vestTime, clawbackTime) ==
    IF periods = <<>> \/ ~(vestTime + Head(periods).Length < clawbackTime)
      THEN <<>>
      ELSE <<Head(periods)>>
           \o PassedPeriods(Tail(periods), vestTime + Head(periods).Length, clawbackTime)

RECURSIVE CapPeriods(_, _)
\* the schedule cut off where its running total reaches cap
CapPeriods(periods, cap) ==
    IF periods = <<>> \/ cap = 0 THEN <<>>
    ELSE <<[Length |-> Head(periods).Length,
            Amount |-> Min64(Head(periods).Amount, cap)]>>
         \o CapPeriods(Tail(periods), cap - Min64(Head(periods).Amount, cap))

\* the account after tva.Clawback at clawbackTime: the unvested periods are
\* gone, the lockup is capped at what had vested
ClawedBackAccount(tva, clawbackTime) ==
    [tva EXCEPT
       !.OriginalVesting =
           SumAmounts(PassedPeriods(tva.VestingPeriods, tva.StartTime, clawbackTime)),
       !.EndTime =
           tva.StartTime
             + max64(SumLengths(tva.VestingPeriods),
                     SumLengths(CapPeriods(tva.LockupPeriods,
                         SumAmounts(PassedPeriods(tva.VestingPeriods, tva.StartTime,
                                                  clawbackTime))))),
       !.LockupPeriods =
           CapPeriods(tva.LockupPeriods,
                      SumAmounts(PassedPeriods(tva.VestingPeriods, tva.StartTime,
                                               clawbackTime))),
       !.VestingPeriods = PassedPeriods(tva.VestingPeriods, tva.StartTime, clawbackTime)]

\* bk.SpendableCoins
SpendableCoins(acc, balance, blockTime) ==
    IF balance > LockedCoins(acc, blockTime)
      THEN balance - LockedCoins(acc, blockTime)
      ELSE 0

\* what tva.Clawback hands back and the stores it leaves: the unvested coins
\* that the account can spend go to dest
TrueClawback(tva, addr, dest, accs, bals, blockTime) ==
    IF tva.OriginalVesting
         = SumAmounts(PassedPeriods(tva.VestingPeriods, tva.StartTime, blockTime))
      THEN [accounts |-> accs, balances |-> bals, err |-> "nil"]
      ELSE [accounts |-> [accs EXCEPT ![addr] = ClawedBackAccount(tva, blockTime)],
            balances |->
                SendCoins([accs EXCEPT ![addr] = ClawedBackAccount(tva, blockTime)], bals,
                          addr, dest,
                          Min64(tva.OriginalVesting
                                  - ClawedBackAccount(tva, blockTime).OriginalVesting,
                                SpendableCoins(ClawedBackAccount(tva, blockTime),
                                               bals[addr], blockTime)),
                          blockTime).balances,
            err |->
                SendCoins([accs EXCEPT ![addr] = ClawedBackAccount(tva, blockTime)], bals,
                          addr, dest,
                          Min64(tva.OriginalVesting
                                  - ClawedBackAccount(tva, blockTime).OriginalVesting,
                                SpendableCoins(ClawedBackAccount(tva, blockTime),
                                               bals[addr], blockTime)),
                          blockTime).err]

\* what Clawback hands back, the stores it leaves, whether tva.Clawback was
\* invoked and with which destination
ClawbackHandled(accs, bals, res, err, invoked, dest) ==
    [accounts |-> accs, balances |-> bals,
     out |-> [res |-> res, err |-> err, clawback |-> invoked, dest |-> dest]]

\* dest of Clawback: the funder unless the message names another address
ClawbackDest(msg) ==
    IF msg.DestAddress # "" THEN msg.DestAddress ELSE msg.FunderAddress

\* Clawback that does not compare the funder of the message with the funder
\* of the account
ClawbackResult_AnyFunder(msg, accs, bals, blockTime) ==
    IF AccAddressFromBech32(msg.FunderAddress).err # "nil"
      THEN ClawbackHandled(accs, bals, "nil", AccAddressFromBech32(msg.FunderAddress).err,
                           FALSE, "")
    ELSE IF AccAddressFromBech32(msg.Address).err # "nil"
      THEN ClawbackHandled(accs, bals, "nil", AccAddressFromBech32(msg.Address).err,
                           FALSE, "")
    ELSE IF AccAddressFromBech32(ClawbackDest(msg)).err # "nil"
      THEN ClawbackHandled(accs, bals, "nil", AccAddressFromBech32(ClawbackDest(msg)).err,
                           FALSE, "")
    ELSE IF BlockedAddr(ClawbackDest(msg))
      THEN ClawbackHandled(accs, bals, "nil", "is not allowed to receive funds", FALSE, "")
    ELSE IF GetAccount(accs, msg.Address).kind # "TrueVestingAccount"
      THEN ClawbackHandled(accs, bals, "nil", "account not subject to clawback", FALSE, "")
    ELSE IF TrueClawback(accs[msg.Address], msg.Address, ClawbackDest(msg), accs, bals,
                         blockTime).err # "nil"
      THEN ClawbackHandled(
               TrueClawback(accs[msg.Address], msg.Address, ClawbackDest(msg), accs, bals,
                            blockTime).accounts,
               TrueClawback(accs[msg.Address], msg.Address, ClawbackDest(msg), accs, bals,
                            blockTime).balances,
               "nil",
               TrueClawback(accs[msg.Address], msg.Address, ClawbackDest(msg), accs, bals,
                            blockTime).err,
               TRUE, ClawbackDest(msg))
    ELSE ClawbackHandled(
             TrueClawback(accs[msg.Address], msg.Address, ClawbackDest(msg), accs, bals,
                          blockTime).accounts,
             TrueClawback(accs[msg.Address], msg.Address, ClawbackDest(msg), accs, bals,
                          blockTime).balances,
             "MsgClawbackResponse", "nil", TRUE, ClawbackDest(msg))

\* the handler Clawback as a function of the message, the block time and the
\* stores
ClawbackResult(msg, accs, bals, blockTime) ==
    IF AccAddressFromBech32(msg.FunderAddress).err # "nil"
      THEN ClawbackHandled(accs, bals, "nil", AccAddressFromBech32(msg.FunderAddress).err,
                           FALSE, "")
    ELSE IF AccAddressFromBech32(msg.Address).err # "nil"
      THEN ClawbackHandled(accs, bals, "nil", AccAddressFromBech32(msg.Address).err,
                           FALSE, "")
    ELSE IF AccAddressFromBech32(ClawbackDest(msg)).err # "nil"
      THEN ClawbackHandled(accs, bals, "nil", AccAddressFromBech32(ClawbackDest(msg)).err,
                           FALSE, "")
    ELSE IF BlockedAddr(ClawbackDest(msg))
      THEN ClawbackHandled(accs, bals, "nil", "is not allowed to receive funds", FALSE, "")
    ELSE IF GetAccount(accs, msg.Address).kind # "TrueVestingAccount"
      THEN ClawbackHandled(accs, bals, "nil", "account not subject to clawback", FALSE, "")
    ELSE IF accs[msg.Address].FunderAddress # msg.FunderAddress
      THEN ClawbackHandled(accs, bals, "nil",
                           "clawback can only be requested by original funder", FALSE, "")
    ELSE IF TrueClawback(accs[msg.Address], msg.Address, ClawbackDest(msg), accs, bals,
                         blockTime).err # "nil"
      THEN ClawbackHandled(
               TrueClawback(accs[msg.Address], msg.Address, ClawbackDest(msg), accs, bals,
                            blockTime).accounts,
               TrueClawback(accs[msg.Address], msg.Address, ClawbackDest(msg), accs, bals,
                            blockTime).balances,
               "nil",
               TrueClawback(accs[msg.Address], msg.Address, ClawbackDest(msg), accs, bals,
                            blockTime).err,
               TRUE, ClawbackDest(msg))
    ELSE ClawbackHandled(
             TrueClawback(accs[msg.Address], msg.Address, ClawbackDest(msg), accs, bals,
                          blockTime).accounts,
             TrueClawback(accs[msg.Address], msg.Address, ClawbackDest(msg), accs, bals,
                          blockTime).balances,
             "MsgClawbackResponse", "nil", TRUE, ClawbackDest(msg))

\* one period lasts one unit of time and holds one or two coins
Periods == {[Length |-> 1, Amount |-> a] : a \in {1, 2}}

PeriodSeqs == UNION {[1..n -> Periods] : n \in 0..MaxPeriods}

\* block times from before the first to after the last event of a schedule
BlockTimes == 0..(MaxPeriods + 2)

MsgCreatePeriodicVestingAccount(from, to, startTime, periods, merge) ==
    [entry |-> "CreatePeriodicVestingAccount", FromAddress |-> from, ToAddress |-> to,
     StartTime |-> startTime, VestingPeriods |-> periods, Merge |-> merge]

\* the messages delivered: well-formed ones between the addresses, one to a
\* blocked address, and those of the handler's test with an undecodable
\* address
PeriodicMsgs ==
    {MsgCreatePeriodicVestingAccount(f, t, s, p, m) :
        f \in {"addr1", "addr3"}, t \in VestingAddrs, s \in {0, 1}, p \in PeriodSeqs,
        m \in BOOLEAN}
    \cup {MsgCreatePeriodicVestingAccount("addr1", "blocked", 0, p, FALSE) :
            p \in [1..1 -> Periods]}
    \cup {MsgCreatePeriodicVestingAccount("foo", "addr3", 0, p, FALSE) :
            p \in [1..1 -> Periods]}
    \cup {MsgCreatePeriodicVestingAccount("addr1", "foo", 0, p, FALSE) :
            p \in [1..1 -> Periods]}

MsgCreateVestingAccount(from, to, amount, endTime, delayed) ==
    [entry |-> "CreateVestingAccount", FromAddress |-> from, ToAddress |-> to,
     Amount |-> amount, EndTime |-> endTime, Delayed |-> delayed]

\* the messages for CreateVestingAccount: up to two coins, vesting over or
\* at the end of the first two units of time
VestingMsgs ==
    {MsgCreateVestingAccount(f, t, a, 2, d) :
        f \in {"addr1", "addr3"}, t \in VestingAddrs, a \in {0, 1, 2}, d \in BOOLEAN}
    \cup {MsgCreateVestingAccount("addr1", "blocked", 1, 2, TRUE),
          MsgCreateVestingAccount("foo", "addr3", 1, 2, TRUE),
          MsgCreateVestingAccount("addr1", "foo", 1, 2, TRUE)}

MsgCreateTrueVestingAccount(from, to, startTime, lockupPeriods, vestingPeriods, merge) ==
    [entry |-> "CreateTrueVestingAccount", FromAddress |-> from, ToAddress |-> to,
     StartTime |-> startTime, LockupPeriods |-> lockupPeriods,
     VestingPeriods |-> vestingPeriods, Merge |-> merge]

\* the schedules of a true vesting message: none, one coin, one coin in
\* each of two periods
TruePeriodSeqs ==
    {<<>>, <<[Length |-> 1, Amount |-> 1]>>,
     <<[Length |-> 1, Amount |-> 1], [Length |-> 1, Amount |-> 1]>>}

TrueMsgs ==
    {MsgCreateTrueVestingAccount(f, t, 0, l, v, m) :
        f \in {"addr1", "addr3"}, t \in {"addr2", "addr3"}, l \in TruePeriodSeqs,
        v \in TruePeriodSeqs, m \in BOOLEAN}
    \cup {MsgCreateTrueVestingAccount("addr1", "blocked", 0, <<>>, p, FALSE) :
            p \in [1..1 -> Periods]}
    \cup {MsgCreateTrueVestingAccount("foo", "addr3", 0, <<>>, p, FALSE) :
            p \in [1..1 -> Periods]}
    \cup {MsgCreateTrueVestingAccount("addr1", "foo", 0, <<>>, p, FALSE) :
            p \in [1..1 -> Periods]}

MsgClawback(funder, addr, dest) ==
    [entry |-> "Clawback", FunderAddress |-> funder, Address |-> addr,
     DestAddress |-> dest]

ClawbackMsgs ==
    {MsgClawback(f, a, d) :
        f \in {"addr1", "addr3"}, a \in VestingAddrs, d \in {"", "blocked"}}
    \cup {MsgClawback("addr1", "addr2", "addr3")}
    \cup {MsgClawback("foo", "addr2", ""), MsgClawback("addr1", "foo", ""),
          MsgClawback("addr1", "addr2", "foo")}

\* a true vesting account of the genesis state: one coin, granted by funder,
\* vesting and unlocking after one unit of time
GenesisTrueVestingAccount(addr, funder) ==
    [kind |-> "TrueVestingAccount", Address |-> addr, OriginalVesting |-> 1,
     FunderAddress |-> funder, StartTime |-> 0, EndTime |-> 1,
     LockupPeriods |-> <<[Length |-> 1, Amount |-> 1]>>,
     VestingPeriods |-> <<[Length |-> 1, Amount |-> 1]>>]

\* the stores of the handler's test: addr1 funded, addr2 a plain account,
\* addr3 without an account; or, with a true vesting account in the genesis
\* state, addr2 that account holding its grant and addr3 a plain account
InitVesting ==
    /\ in = [entry |-> "none"]
    /\ stack = <<>>
    /\ ret = [has |-> FALSE, err |-> "nil"]
    /\ pc = "deliver"
    /\ out = [res |-> "nil", err |-> "nil"]
    /\ sign = NoSign
    /\ results = <<>>
    /\ batch = <<>>
    /\ db = <<>>
    /\ \E genesis \in BOOLEAN, n \in 1..MaxFunds :
         /\ accounts = [a \in VestingAddrs |->
                          CASE a = "addr3" /\ ~genesis -> NoAccount
                            [] a = "addr2" /\ genesis ->
                                 GenesisTrueVestingAccount("addr2", "addr1")
                            [] OTHER -> BaseAccount(a)]
         /\ balances = [a \in VestingAddrs |->
                          CASE a = "addr1" -> n
                            [] a = "addr2" /\ genesis -> 1
                            [] OTHER -> 0]

\* the block times that make a difference to the bank keeper: the funder's
\* schedule locks coins only if the funder is a vesting account
BlockTimesOf(accs, from) ==
    IF from \in VestingAddrs
         /\ accs[from].kind \in {"PeriodicVestingAccount", "ContinuousVestingAccount",
                                 "DelayedVestingAccount", "TrueVestingAccount"}
      THEN BlockTimes
      ELSE {0}

\* OriginalVesting of the account the store holds, zero where it holds none
OriginalVestingOf(acc) ==
    IF acc.kind \in {"nil", "BaseAccount"} THEN 0 ELSE acc.OriginalVesting

\* the recipient's OriginalVesting is followed up to MaxVesting
WithinMaxVesting(to, amt) ==
    to \in VestingAddrs => OriginalVestingOf(accounts[to]) + amt <= MaxVesting

\* the result is handed to the caller
Return(msg, handled) ==
    /\ in' = msg
    /\ accounts' = handled.accounts
    /\ balances' = handled.balances
    /\ out' = handled.out
    /\ pc' = "returned"
    /\ UNCHANGED <<stack, ret, sign, results, batch, db>>

\* a message is delivered to CreateVestingAccount at some block time, the
\* bank's send switch on or off
CreateVestingAccount ==
    /\ pc = "deliver"
    /\ \E msg \in VestingMsgs, sendEnabled \in BOOLEAN :
         \E blockTime \in IF msg.Delayed THEN BlockTimesOf(accounts, msg.FromAddress)
                                         ELSE BlockTimes :
           Return(msg, CreateVestingAccountResult(msg, accounts, balances, blockTime,
                                                  sendEnabled))

\* a message is delivered to the handler at some block time
CreatePeriodicVestingAccount ==
    /\ pc = "deliver"
    /\ \E msg \in PeriodicMsgs :
         /\ WithinMaxVesting(msg.ToAddress, SumAmounts(msg.VestingPeriods))
         /\ \E blockTime \in BlockTimesOf(accounts, msg.FromAddress) :
              Return(msg, CreatePeriodicVestingAccountResult(msg, accounts, balances,
                                                             blockTime))

\* a message is delivered to CreateTrueVestingAccount at some block time
CreateTrueVestingAccount ==
    /\ pc = "deliver"
    /\ \E msg \in TrueMsgs :
         /\ WithinMaxVesting(msg.ToAddress, SumAmounts(DefaultedVesting(msg)))
         /\ \E blockTime \in BlockTimesOf(accounts, msg.FromAddress) :
              Return(msg, CreateTrueVestingAccountResult(msg, accounts, balances,
                                                         blockTime))

\* a message is delivered to Clawback at some block time
Clawback ==
    /\ pc = "deliver"
    /\ \E msg \in ClawbackMsgs, blockTime \in BlockTimes :
         Return(msg, ClawbackResult(msg, accounts, balances, blockTime))

\* the caller has the result; the next message is awaited
NextMessage ==
    /\ pc = "returned"
    /\ in' = [entry |-> "none"]
    /\ out' = [res |-> "nil", err |-> "nil"]
    /\ pc' = "deliver"
    /\ UNCHANGED <<stack, ret, sign, results, accounts, balances, batch, db>>

NextVesting ==
    \/ CreateVestingAccount
    \/ CreatePeriodicVestingAccount
    \/ CreateTrueVestingAccount
    \/ Clawback
    \/ NextMessage

SpecVesting == InitVesting /\ [][NextVesting]_vars

(***************************************************************************)
(* The sqlite Batch.  A statement is the name of its SQL text and the      *)
(* arguments of Exec.  A transaction is the statements executed in it so   *)
(* far and its state, "open", "committed" or "rolledback"; db.visible is   *)
(* the statements of the committed transactions, in the order of the       *)
(* commits.  in is the Set and Delete calls made since the batch was       *)
(* created or last reset; out is the last call and what it returned.       *)
(***************************************************************************)
batchActionSet == 0

batchActionDel == 1

\* tx.Exec(reservedUpsertStmt, ...)
ReservedUpsert(version) ==
    [stmt |-> "reservedUpsertStmt",
     args |-> <<"reservedStoreKey", "keyLatestHeight", version, 0, version>>]

\* tx.Exec of the statement of one buffered operation
StatementOf(op, version) ==
    IF op.action = batchActionSet
      THEN [stmt |-> "upsertStmt",
            args |-> <<op.storeKey, op.key, op.value, version, op.value>>]
      ELSE [stmt |-> "delStmt", args |-> <<version, op.storeKey, op.key, version>>]

\* the statements of Write with the operations last
StatementsOf_UpsertLast(ops, version) ==
    [i \in 1..Len(ops) |-> StatementOf(ops[i], version)] \o <<ReservedUpsert(version)>>

\* the statements of Write, in the order Write executes them
StatementsOf(ops, version) ==
    <<ReservedUpsert(version)>> \o [i \in 1..Len(ops) |-> StatementOf(ops[i], version)]

StoreKeys == {"bank"}

BatchKeys == {<<1, 2>>}

BatchValues == {<<>>, <<7>>}

BatchResult(call, err, executed) == [call |-> call, err |-> err, executed |-> executed]

\* NewBatch has begun the first transaction; nothing is buffered
InitBatch ==
    /\ in = <<>>
    /\ stack = <<>>
    /\ ret = [has |-> FALSE, err |-> "nil"]
    /\ pc = "batch"
    /\ out = BatchResult("NewBatch", "nil", <<>>)
    /\ sign = NoSign
    /\ results = <<>>
    /\ accounts = <<>>
    /\ balances = <<>>
    /\ \E version \in {1, 2} :
         batch = [ops |-> <<>>, size |-> 0, version |-> version, tx |-> 1]
    /\ db = [txs |-> <<[stmts |-> <<>>, state |-> "open"]>>, visible |-> <<>>]

batchIdle == <<stack, ret, pc, sign, results, accounts, balances>>

\* Batch.Set
BatchSet ==
    /\ pc = "batch"
    /\ Len(batch.ops) < MaxOps
    /\ \E storeKey \in StoreKeys, key \in BatchKeys, value \in BatchValues :
         /\ batch' = [batch EXCEPT
                        !.size = @ + Len(key) + Len(value),
                        !.ops = Append(@, [action |-> batchActionSet,
                                           storeKey |-> storeKey, key |-> key,
                                           value |-> value])]
         /\ in' = Append(in, [call |-> "Set", storeKey |-> storeKey, key |-> key,
                              value |-> value])
    /\ out' = BatchResult("Set", "nil", <<>>)
    /\ UNCHANGED db
    /\ UNCHANGED batchIdle

\* Batch.Delete
BatchDelete ==
    /\ pc = "batch"
    /\ Len(batch.ops) < MaxOps
    /\ \E storeKey \in StoreKeys, key \in BatchKeys :
         /\ batch' = [batch EXCEPT
                        !.size = @ + Len(key),
                        !.ops = Append(@, [action |-> batchActionDel,
                                           storeKey |-> storeKey, key |-> key,
                                           value |-> <<>>])]
         /\ in' = Append(in, [call |-> "Delete", storeKey |-> storeKey, key |-> key,
                              value |-> <<>>])
    /\ out' = BatchResult("Delete", "nil", <<>>)
    /\ UNCHANGED db
    /\ UNCHANGED batchIdle

\* Batch.Reset: the buffer is emptied, then a transaction is begun; if
\* db.Begin fails the batch keeps the transaction it had
BatchReset ==
    /\ pc = "batch"
    /\ in' = <<>>
    /\ \E begun \in BOOLEAN :
         /\ begun => Len(db.txs) < MaxBegun
         /\ IF begun
              THEN /\ db' = [db EXCEPT !.txs = Append(@, [stmts |-> <<>>,
                                                          state |-> "open"])]
                   /\ batch' = [batch EXCEPT !.ops = <<>>, !.size = 0,
                                             !.tx = Len(db.txs) + 1]
                   /\ out' = BatchResult("Reset", "nil", <<>>)
              ELSE /\ db' = db
                   /\ batch' = [batch EXCEPT !.ops = <<>>, !.size = 0]
                   /\ out' = BatchResult("Reset", "failed to begin", <<>>)
    /\ UNCHANGED batchIdle

RECURSIVE StatementsIn(_)

\* the transaction of the batch after the statements were executed in it
Executed(executed, state) ==
    [db.txs EXCEPT ![batch.tx] = [stmts |-> @.stmts \o executed, state |-> state]]

\* the statements executed so far, in all transactions
StatementsIn(txs) ==
    IF txs = <<>> THEN 0 ELSE Len(Head(txs).stmts) + StatementsIn(Tail(txs))

\* Batch.Write: the statements are executed one after the other in the
\* transaction of the batch; the first that fails ends the call; after the
\* last the transaction is committed.  failAt is the statement that fails,
\* none of them if it is 0, the commit if it is one past the last
BatchWrite ==
    /\ pc = "batch"
    /\ StatementsIn(db.txs) + Len(batch.ops) + 1 <= MaxStatements
    /\ \E failAt \in 0..(Len(batch.ops) + 2) :
         LET statements == StatementsOf(batch.ops, batch.version)
         IN  IF db.txs[batch.tx].state # "open"
               THEN /\ db' = db
                    /\ out' = BatchResult("Write", "failed to exec SQL statement", <<>>)
             ELSE IF failAt \in 1..Len(statements)
               THEN /\ db' = [db EXCEPT
                                !.txs = Executed(SubSeq(statements, 1, failAt - 1),
                                                 "open")]
                    /\ out' = BatchResult("Write", "failed to exec SQL statement",
                                          SubSeq(statements, 1, failAt - 1))
             ELSE IF failAt = Len(statements) + 1
               THEN /\ db' = [db EXCEPT !.txs = Executed(statements, "rolledback")]
                    /\ out' = BatchResult("Write", "failed to write SQL transaction",
                                          statements)
             ELSE /\ db' = [txs |-> Executed(statements, "committed"),
                            visible |-> db.visible \o db.txs[batch.tx].stmts
                                          \o statements]
                  /\ out' = BatchResult("Write", "nil", statements)
    /\ UNCHANGED <<in, batch>>
    /\ UNCHANGED batchIdle

NextBatch ==
    \/ BatchSet
    \/ BatchDelete
    \/ BatchReset
    \/ BatchWrite

SpecBatch == InitBatch /\ [][NextBatch]_vars

(***************************************************************************)
(* What a message tree holds, read off the tree and not off the bytes.     *)
(***************************************************************************)
\* unknown field numbers with bit 1024 set / unset
NonCriticalRoles == {"unkNonCrit", "unkNonCritGroup", "truncated"}

CriticalRoles == {"unkCrit"}

\* known field numbers written with a wire type their kind does not take
MismatchRoles == {"mismatch", "mismatchNC", "packed"}

\* type URLs the resolver has no name for (the empty URL among them)
UnresolvableUrls == {UrlUnknown, <<>>}

HasTop(msg, roles) == \E i \in 1..Len(msg) : msg[i].role \in roles

Done == pc = "done"

Succeeded == pc = "done" /\ out.err = "nil"

Strict == in.entry = "RejectUnknownFieldsStrict"

Permissive == in.entry = "RejectUnknownFields" /\ in.allow

RECURSIVE WalkValid(_, _)
RECURSIVE WalkValidAny(_, _)
\* the envelope node read as a message of descriptor Any: no unknown field
\* in the wrapper but those of roles ok
WalkValidAny(node, ok) ==
    /\ node.role \in AnyRoles
    /\ node.role = "anyExtraCrit" => "unkCrit" \in ok
    /\ node.role = "anyExtraNonCrit" => "unkNonCrit" \in ok

\* every field of msg is a known field with the wire type of its kind or a
\* leaf of roles ok, at every level the walk visits, and every envelope
\* field resolves to a message
WalkValid(msg, ok) ==
    \A i \in 1..Len(msg) :
       LET nd == msg[i]
       IN \/ nd.role \in {"varint", "string", "fixed32"} \cup ok
          \/ nd.role = "nested" /\ WalkValid(nd.kids, ok)
          \/ /\ WalkValidAny(nd, ok)
             /\ \/ nd.url = UrlMsg /\ WalkValid(nd.kids, ok)
                \/ /\ nd.url = UrlAny
                   /\ nd.kids # <<>> => WalkValidAny(nd.kids[1], ok)

RECURSIVE ContainsWalked(_, _)
\* a field of a role in roles stands where the walk comes by if nothing
\* before it fails: in the root message, a nested message or the payload
\* of an envelope field that resolves to Msg
ContainsWalked(msg, roles) ==
    \E i \in 1..Len(msg) :
       \/ msg[i].role \in roles
       \/ msg[i].role = "nested" /\ ContainsWalked(msg[i].kids, roles)
       \/ msg[i].role \in AnyRoles /\ msg[i].url = UrlMsg
          /\ ContainsWalked(msg[i].kids, roles)

RECURSIVE ContainsUnresolvable(_)
\* an envelope field whose type URL the resolver cannot map, where the walk
\* comes by
ContainsUnresolvable(msg) ==
    \E i \in 1..Len(msg) :
       \/ msg[i].role \in AnyRoles /\ msg[i].url \in UnresolvableUrls
       \/ msg[i].role = "nested" /\ ContainsUnresolvable(msg[i].kids)
       \/ msg[i].role \in AnyRoles /\ msg[i].url = UrlMsg
          /\ ContainsUnresolvable(msg[i].kids)

RECURSIVE ContainsDeep(_, _)
RECURSIVE AnyContainsDeep(_, _)
\* the envelope holds an unknown field of a role in roles: in its wrapper,
\* or in its payload read with the descriptor its type URL resolves to
AnyContainsDeep(node, roles) ==
    \/ node.role = "anyExtraCrit" /\ "unkCrit" \in roles
    \/ node.role = "anyExtraNonCrit" /\ "unkNonCrit" \in roles
    \/ node.url = UrlMsg /\ ContainsDeep(node.kids, roles)
    \/ node.url = UrlAny /\ node.kids # <<>> /\ AnyContainsDeep(node.kids[1], roles)

\* msg holds a field of a role in roles at some depth, envelope payloads
\* at every envelope-in-envelope depth included
ContainsDeep(msg, roles) ==
    \E i \in 1..Len(msg) :
       \/ msg[i].role \in roles
       \/ msg[i].role = "nested" /\ ContainsDeep(msg[i].kids, roles)
       \/ msg[i].role \in AnyRoles /\ AnyContainsDeep(msg[i], roles)

\* the innermost frame is at a field whose number its descriptor lacks
UnknownHead ==
    /\ pc = "run"
    /\ Top.bz # <<>>
    /\ ConsumeTag(Top.bz).n > 0
    /\ ~HasField(Top.desc, ConsumeTag(Top.bz).num)

HeadNum == ConsumeTag(Top.bz).num

\* the value of the field at the head of the innermost frame can be read
HeadValueOk ==
    ConsumeFieldValue(HeadNum, ConsumeTag(Top.bz).typ,
                      Drop(Top.bz, ConsumeTag(Top.bz).n)) >= 0

Bit1024(n) == (n \div 1024) % 2 = 1

\* the frame the step leaves behind returned the unknown-field error
ReturnsUnknownField ==
    /\ pc' = "ret"
    /\ stack' = Pop
    /\ ret'.err = "ErrUnknownField"

\* C1, at one field: a critical unknown field is reported in both modes, a
\* non-critical one is reported when not allowed; when allowed the flag is
\* set and, the value being readable, the loop goes on in the same frame
C1_Step ==
    UnknownHead =>
       IF ~Bit1024(HeadNum) \/ ~in.allow
       THEN ReturnsUnknownField
       ELSE IF HeadValueOk
            THEN /\ pc' = "run"
                 /\ Len(stack') = Len(stack)
                 /\ stack'[Len(stack)].has
                 /\ stack'[Len(stack)].desc = Top.desc
                 /\ Len(stack'[Len(stack)].bz) < Len(Top.bz)
            ELSE pc' = "ret" /\ ret'.has /\ ret'.err = "could not consume field value"

\* C1, the bytes skipped: the root frame at an allowed non-critical unknown
\* field goes on with exactly the encoding of the fields that follow it
C1_Skip ==
    \A k \in 0..(Len(in.msg) - 1) :
       ( /\ pc = "run"
         /\ Len(stack) = 1
         /\ in.allow
         /\ stack[1].bz = EncodeMsg(Drop(in.msg, k), in.desc)
         /\ in.msg[k + 1].role \in {"unkNonCrit", "unkNonCritGroup"} )
       => /\ pc' = "run"
          /\ Len(stack') = 1
          /\ stack'[1].has
          /\ stack'[1].bz = EncodeMsg(Drop(in.msg, k + 1), in.desc)

\* C1: RejectUnknownFields at a field number the descriptor does not
\* contain: a number with bit 1024 unset is reported as an unknown field
\* whatever allowUnknownNonCriticals is; a number with bit 1024 set is
\* reported when allowUnknownNonCriticals is false, and when it is true the
\* flag is set, exactly the value bytes are skipped and the walk goes on
\* with the next field.
C1_UnknownFieldPolicy == [][C1_Step /\ C1_Skip]_vars

\* C1 witness: the permissive walk has skipped a non-critical unknown first
\* field and stands at the second field with the flag set
C1_Witness ==
    /\ pc = "run"
    /\ in.allow
    /\ Len(in.msg) = 2
    /\ in.msg[1].role = "unkNonCrit"
    /\ Len(stack) = 1
    /\ stack[1].has
    /\ stack[1].bz = EncodeMsg(Drop(in.msg, 1), in.desc)

Validator == in.entry \in {"RejectUnknownFields", "RejectUnknownFieldsStrict"}

\* C2 as stated: a buffer with an unknown field number whose bit 1024 is
\* unset fails the strict variant, and the permissive variant succeeds on
\* it and reports hasUnknownNonCriticals = true
C2_Original ==
    (Done /\ HasTop(in.msg, CriticalRoles)) =>
       /\ Strict => out.err # "nil"
       /\ Permissive => out.err = "nil" /\ out.has

\* C2 amended: for a buffer with an unknown field number whose bit 1024 is
\* SET, the strict variant never succeeds; the permissive variant reports
\* hasUnknownNonCriticals = true whenever it succeeds, and it does succeed
\* when every other field the walk visits is a known field with the wire
\* type of its kind, every unknown value is readable and every envelope
\* field resolves to a message descriptor.
C2_NonCriticalUnknown ==
    HasTop(in.msg, NonCriticalRoles) =>
       /\ (Done /\ Strict) => out.err # "nil"
       /\ (Done /\ Permissive /\ out.err = "nil") => out.has
       /\ (Permissive /\ pc \in {"done", "panic"}
           /\ WalkValid(in.msg, {"unkNonCrit", "unkNonCritGroup"}))
          => Succeeded /\ out.has

\* C2 witness: the permissive variant has accepted a buffer that holds a
\* non-critical unknown field, with the flag set
C2_Witness ==
    /\ Succeeded
    /\ Permissive
    /\ HasTop(in.msg, {"unkNonCrit"})
    /\ out.has

C4_KnownFieldsPass ==
    (Done /\ Validator /\ ~in.allow /\ WalkValid(in.msg, {"packed"}))
    => out.err = "nil" /\ ~out.has

\* the wire type the claim gives each kind
ClaimedWireType(kind) ==
    CASE kind \in {"int32", "int64", "sint32", "sint64", "uint32", "uint64",
                   "bool", "enum"} -> VarintType
      [] kind \in {"fixed64", "sfixed64", "double"} -> Fixed64Type
      [] kind \in {"string", "bytes", "message", "group"} -> BytesType
      [] kind \in {"fixed32", "sfixed32", "float"} -> Fixed32Type

\* C5: a known field number written with a wire type other than the one
\* assignable to its declared kind makes RejectUnknownFields return an
\* error under both values of allowUnknownNonCriticals, whether or not the
\* number has bit 1024 set.
C5_WireTypeMismatch ==
    /\ \A k \in Kinds, wt \in 0..7 :
          isWireTypeAssignable(wt, k) <=> (wt = ClaimedWireType(k))
    /\ (Done /\ Validator /\ ContainsWalked(in.msg, MismatchRoles)) => out.err # "nil"
    /\ (Done /\ Validator /\ in.msg # <<>> /\ in.msg[1].role \in MismatchRoles)
       => out.err = "invalid wire type"

\* C5 witness: the permissive variant has rejected a known field whose
\* number has bit 1024 set and whose wire type is not that of its kind
C5_Witness ==
    /\ Done
    /\ Permissive
    /\ Len(in.msg) = 1
    /\ in.msg[1].role = "mismatchNC"
    /\ out.err = "invalid wire type"

\* C6: whenever RejectUnknownFields returns no error, no critical unknown
\* field occurs at any level: top level, nested message, envelope wrapper,
\* envelope payload read with the descriptor resolved from its type URL, at
\* any envelope-in-envelope depth.
C6_NoCriticalUnknownAccepted ==
    (Succeeded /\ Validator) => ~ContainsDeep(in.msg, CriticalRoles)

\* C7: with allowUnknownNonCriticals = true, an unknown non-critical field
\* at any depth of nested messages or envelope-in-envelope payloads makes a
\* successful root call return hasUnknownNonCriticals = true.
C7_FlagReachesRoot ==
    (Succeeded /\ Permissive /\ ContainsDeep(in.msg, NonCriticalRoles)) => out.has

\* C8: an envelope field whose type URL names no descriptor of the
\* resolver makes the whole call return an error, in both modes; its
\* payload is never accepted unchecked.
C8_UnresolvableFails ==
    /\ (Done /\ ContainsUnresolvable(in.msg)) => out.err # "nil"
    /\ (Done /\ in.msg # <<>> /\ in.msg[1].role = "any"
        /\ in.msg[1].url \in UnresolvableUrls) => out.err = "not found"

\* C8 witness: the permissive variant has returned the resolver's error for
\* an envelope whose payload holds a critical unknown field
C8_Witness ==
    /\ Done
    /\ Permissive
    /\ in.msg = <<Node("any", UrlUnknown, <<Leaf("unkCrit")>>)>>
    /\ out.err = "not found"

\* C9: the returned flag is true when a non-critical unknown field was met
\* during the walk, also when allowUnknownNonCriticals = false rejects the
\* buffer because of it: the call returns the error and the flag true.
C9_FlagWithError ==
    /\ (Done /\ in.entry = "RejectUnknownFields" /\ in.msg # <<>>
        /\ in.msg[1].role \in NonCriticalRoles) => out.has
    /\ (Done /\ in.entry = "RejectUnknownFields" /\ ~in.allow
        /\ out.err = "ErrUnknownField" /\ ~ContainsDeep(in.msg, CriticalRoles))
       => out.has

\* C9 witness: the strict mode has rejected a non-critical unknown field of
\* a nested message and returned the flag with the error
C9_Witness ==
    /\ Done
    /\ in.entry = "RejectUnknownFields"
    /\ ~in.allow
    /\ in.msg = <<Node("nested", <<>>, <<Leaf("unkNonCrit")>>)>>
    /\ out.err = "ErrUnknownField"
    /\ out.has

\* C10: GetSignBytes runs the strict validation over the body bytes first
\* and builds the sign document only if it succeeds: for every body with an
\* unknown field of either criticality at any depth it returns an error and
\* no sign bytes.
C10_SignOnlyValidated ==
    (Done /\ in.entry = "GetSignBytes"
     /\ ContainsDeep(in.msg, CriticalRoles \cup NonCriticalRoles))
    => out.err # "nil" /\ ~out.signed

(***************************************************************************)
(* GetSignBytes: the request checks and the fee of the sign document.      *)
(***************************************************************************)
\* GetSignBytes has returned after reading signerData and txData.AuthInfo
SignReturned == pc = "done" /\ in.entry = "GetSignBytes" /\ sign.called

\* a tip is present and its tipper is the signer
IsTipper == sign.tip.present /\ sign.tip.Tipper = sign.signerData.Address

BodyHasExtensionOptions == HasTop(in.msg, {"extOpt"}) \/ HasTop(in.msg, {"ncExtOpt"})

\* C11: when a tip is present and the signer is its tipper, the fee of the
\* sign document has no amount, gas 0 and empty payer and granter whatever
\* the declared fee is, and an absent declared fee is no error: a body
\* without extension options and a non-empty signer address give sign bytes.
C11_TipperFee ==
    (SignReturned /\ IsTipper) =>
       /\ out.signed =>
             sign.signDoc.Fee = [Amount |-> <<>>, Gas |-> 0, Payer |-> "", Granter |-> ""]
       /\ (~BodyHasExtensionOptions /\ sign.signerData.Address # "")
          => out.signed /\ out.err = "nil"

\* C11 witness: the tipper has signed a transaction that declares a fee
\* with an amount and a payer
C11_Witness ==
    /\ SignReturned
    /\ IsTipper
    /\ sign.fee.present
    /\ sign.fee.Amount = <<100>>
    /\ sign.fee.Payer = "bob"
    /\ out.signed
    /\ sign.signDoc.Fee.Amount = <<>>

\* C12: when the signer is not the tipper, GetSignBytes fails if the
\* declared fee is absent (with the fee error when no earlier check fails),
\* and otherwise the fee of the sign document is the declared fee: amount,
\* gas limit, payer and granter.
C12_DeclaredFee ==
    (SignReturned /\ ~IsTipper) =>
       /\ ~sign.fee.present => out.err # "nil" /\ ~out.signed
       /\ (~sign.fee.present /\ ~BodyHasExtensionOptions /\ sign.signerData.Address # ""
           /\ ~(sign.tip.present /\ sign.tip.Tipper = ""))
          => out.err = "fee cannot be nil when tipper is not signer"
       /\ out.signed =>
             sign.signDoc.Fee = [Amount |-> sign.fee.Amount, Gas |-> sign.fee.GasLimit,
                                 Payer |-> sign.fee.Payer, Granter |-> sign.fee.Granter]

\* C12 witness: a signer other than the tipper of a present tip has signed
\* a declared fee with an amount and a payer
C12_Witness ==
    /\ SignReturned
    /\ sign.tip.present
    /\ ~IsTipper
    /\ out.signed
    /\ sign.signDoc.Fee.Amount = <<100>>
    /\ sign.signDoc.Fee.Gas = 200000
    /\ sign.signDoc.Fee.Payer = "bob"

\* C13: GetSignBytes returns an error and no sign bytes whenever the body
\* carries an extension option or a non-critical extension option, whatever
\* the other inputs are.
C13_ExtensionOptionsRejected ==
    /\ (pc = "done" /\ in.entry = "GetSignBytes" /\ BodyHasExtensionOptions)
       => out.err # "nil" /\ ~out.signed
    /\ (SignReturned /\ BodyHasExtensionOptions)
       => out.err = "does not support protobuf extension options"

\* C13 witness: a valid body with one non-critical extension option and a
\* complete signing context has been refused
C13_Witness ==
    /\ SignReturned
    /\ HasTop(in.msg, {"ncExtOpt"})
    /\ ~HasTop(in.msg, {"extOpt"})
    /\ sign.signerData.Address = "alice"
    /\ sign.fee.present
    /\ out.err = "does not support protobuf extension options"

\* C14: GetSignBytes returns an error and no sign bytes whenever the signer
\* address is empty and whenever a present tip has an empty tipper address.
C14_AddressesRequired ==
    (SignReturned
     /\ (sign.signerData.Address = "" \/ (sign.tip.present /\ sign.tip.Tipper = "")))
    => out.err # "nil" /\ ~out.signed

\* C14 witness: a signer with an address has been refused for a tip
\* without a tipper
C14_Witness ==
    /\ SignReturned
    /\ sign.signerData.Address = "alice"
    /\ sign.tip.present
    /\ sign.tip.Tipper = ""
    /\ out.err = "tipper cannot be empty"

(***************************************************************************)
(* The sign document's messages and the canonical text.                    *)
(***************************************************************************)
\* the value of key in the mapping j
JGet(j, key) == j.items[CHOOSE i \in 1..Len(j.items) : j.items[i].k = key]

\* C15: the message list of the sign document, and of the canonical output
\* after key sorting, holds the body's messages in their original order,
\* none dropped, none twice.
C15_MessagesInOrder ==
    (SignReturned /\ out.signed) =>
       /\ sign.signDoc.Msgs = DecodedBody(in.msg).Messages
       /\ Len(JGet(out.bz, "msgs").items) = Len(DecodedBody(in.msg).Messages)
       /\ \A i \in 1..Len(DecodedBody(in.msg).Messages) :
             JGet(out.bz, "msgs").items[i] = JRaw("", AnyBody(DecodedBody(in.msg).Messages[i]))

\* C15 witness: sign bytes for a body of two different messages
C15_Witness ==
    /\ SignReturned
    /\ out.signed
    /\ Len(in.msg) = 2
    /\ Len(sign.signDoc.Msgs) = 2
    /\ sign.signDoc.Msgs[1] # sign.signDoc.Msgs[2]
    /\ Len(JGet(out.bz, "msgs").items) = 2

SortCalled == in.entry = "sortJSON" /\ Len(results) >= 1

RECURSIVE UniqueKeys(_)
\* no mapping of j holds a key twice, escapes read
UniqueKeys(j) ==
    /\ j.t = "obj" =>
          \A i, h \in 1..Len(j.items) :
             i # h => Unquote(j.items[i].k) # Unquote(j.items[h].k)
    /\ \A i \in 1..Len(j.items) : UniqueKeys(j.items[i])

\* C16: for every document on which sortJSON succeeds, sortJSON of its
\* output returns that output again, with no error.
C16_Idempotent ==
    (in.entry = "sortJSON" /\ Len(results) = 3) => results[3] = results[1]

\* C16 witness: a document with a nested mapping that sortJSON changed has
\* been sorted twice
C16_Witness ==
    /\ in.entry = "sortJSON"
    /\ Len(results) = 3
    /\ results[1].js # in.doc
    /\ \E i \in 1..Len(in.doc.items) : in.doc.items[i].t = "obj"
    /\ results[3].err = "nil"

RECURSIVE KeysAscending(_)
\* in every mapping of j the keys ascend
KeysAscending(j) ==
    /\ j.t = "obj" =>
          \A i \in 1..(Len(j.items) - 1) :
             KeyRank(Unquote(j.items[i].k)) < KeyRank(Unquote(j.items[i + 1].k))
    /\ \A i \in 1..Len(j.items) : KeysAscending(j.items[i])

RECURSIVE SameContent(_, _)
\* b holds what a holds: the same keys in every mapping with the same
\* content under them, every list element for element, every leaf as written
SameContent(a, b) ==
    /\ a.t = b.t
    /\ CASE a.t = "obj" ->
              /\ \A i \in 1..Len(b.items) : \E h \in 1..Len(a.items) :
                    /\ Unquote(a.items[h].k) = Unquote(b.items[i].k)
                    /\ SameContent(a.items[h], b.items[i])
              /\ \A h \in 1..Len(a.items) : \E i \in 1..Len(b.items) :
                    Unquote(a.items[h].k) = Unquote(b.items[i].k)
         [] a.t = "arr" ->
              /\ Len(a.items) = Len(b.items)
              /\ \A i \in 1..Len(a.items) : SameContent(a.items[i], b.items[i])
         [] OTHER -> [a EXCEPT !.k = ""] = [b EXCEPT !.k = ""]

\* C18: the output of sortJSON has the keys of every mapping at every depth
\* in ascending order, keeps every list in input order and writes every
\* number and string leaf exactly as the input text has it.
C18_SortedVerbatim ==
    (SortCalled /\ results[1].err = "nil")
    => KeysAscending(results[1].js) /\ SameContent(in.doc, results[1].js)

(***************************************************************************)
(* Termination of RejectUnknownFields.                                     *)
(***************************************************************************)
\* one step of the walk makes progress: an iteration that goes on leaves a
\* shorter buffer, a recursive call gets a slice shorter than the buffer
\* its caller had at the field (the payload of an envelope: shorter than
\* the envelope)
C19_Step ==
    /\ (pc = "run" /\ pc' = "run" /\ Len(stack') = Len(stack))
       => Len(stack'[Len(stack)].bz) < Len(Top.bz)
    /\ (pc = "run" /\ Len(stack') = Len(stack) + 1)
       => /\ Len(stack'[Len(stack')].bz) < Len(Top.bz)
          /\ Len(stack'[Len(stack)].bz) < Len(Top.bz)
    /\ (pc = "ret" /\ Len(stack') = Len(stack) + 1)
       => Len(stack'[Len(stack')].bz) < Len(Top.fieldBytes)
    /\ (pc = "ret" /\ stack # <<>> /\ pc' = "run" /\ Len(stack') = Len(stack))
       => stack'[Len(stack)].bz = Top.bz

\* C19: every RejectUnknownFields call terminates: each loop iteration
\* consumes at least one byte of the remaining buffer, every recursive call
\* runs on a slice strictly shorter than its caller's buffer, and the call
\* ends by returning success or an error.
C19_Terminates == [][C19_Step /\ pc' # "panic"]_vars

(***************************************************************************)
(* The sign bytes and the tip.                                             *)
(***************************************************************************)
\* what GetSignBytes returns after the validation for these inputs
SignBytesOf(body, signerData, fee, tip) ==
    IF BuildError(body, signerData, fee, tip) # "nil"
    THEN [err |-> BuildError(body, signerData, fee, tip), bz |-> <<>>]
    ELSE [err |-> sortJSON(Marshal(SignDoc(body, signerData, fee, tip))).err,
          bz |-> sortJSON(Marshal(SignDoc(body, signerData, fee, tip))).js]

\* GetSignBytes has returned for a transaction with a tip
SignedWithTip == SignReturned /\ sign.called /\ sign.tip.present

\* the tip is of the signer
TipOfSigner(tip, signerData) == tip.present /\ tip.Tipper = signerData.Address

\* C27 as stated: the sign bytes do not depend on the amount of a present
\* tip, and the tip acts on the result only through whether its tipper is
\* the signer: any present tip that agrees on that gives the same result.
C27_Original ==
    SignedWithTip
    => \A tip \in Tips :
         (tip.present /\ TipOfSigner(tip, sign.signerData) = TipOfSigner(sign.tip, sign.signerData))
         => SignBytesOf(DecodedBody(in.msg), sign.signerData, sign.fee, tip)
              = [err |-> out.err, bz |-> out.bz]

\* C27: the sign bytes do not depend on the amount of a present tip: any
\* present tip that agrees on whether the tipper is empty and on whether the
\* tipper is the signer gives the same result, byte for byte.
C27_TipAmountIgnored ==
    SignedWithTip
    => \A tip \in Tips :
         (/\ tip.present
          /\ TipOfSigner(tip, sign.signerData) = TipOfSigner(sign.tip, sign.signerData)
          /\ (tip.Tipper = "") = (sign.tip.Tipper = ""))
         => SignBytesOf(DecodedBody(in.msg), sign.signerData, sign.fee, tip)
              = [err |-> out.err, bz |-> out.bz]

\* C27 witness: sign bytes for the tipper of a tip with an amount
C27_Witness ==
    /\ SignedWithTip
    /\ out.signed
    /\ sign.tip.Tipper = sign.signerData.Address
    /\ sign.tip.Amount # <<>>
    /\ sign.fee.present
    /\ sign.fee.Amount # <<>>

\* C26: RejectUnknownFields reports every failure as a returned error and
\* never panics, whatever the buffer and whatever the resolver answers: a
\* type URL that is empty or resolves to a descriptor that is not a message
\* descriptor, an envelope with an empty payload.
C26_NeverPanics == pc # "panic"

(***************************************************************************)
(* The vesting msgServer.                                                  *)
(***************************************************************************)
\* the handler has just returned success for a message whose funder is not
\* its recipient
PeriodicSucceeds ==
    /\ pc = "deliver"
    /\ pc' = "returned"
    /\ in'.entry = "CreatePeriodicVestingAccount"
    /\ out'.err = "nil"
    /\ in'.FromAddress # in'.ToAddress

C20_Step ==
    PeriodicSucceeds =>
        /\ out'.res = "MsgCreatePeriodicVestingAccountResponse"
        /\ accounts[in'.ToAddress].kind \in {"nil", "PeriodicVestingAccount"}
        /\ balances'[in'.FromAddress]
             = balances[in'.FromAddress] - SumAmounts(in'.VestingPeriods)
        /\ balances'[in'.ToAddress]
             = balances[in'.ToAddress] + SumAmounts(in'.VestingPeriods)
        /\ accounts'[in'.ToAddress].kind = "PeriodicVestingAccount"
        /\ accounts'[in'.ToAddress].OriginalVesting
             = OriginalVestingOf(accounts[in'.ToAddress]) + SumAmounts(in'.VestingPeriods)

\* C20: every successful CreatePeriodicVestingAccount whose funder is not the
\* recipient, creating the account or merging into an existing periodic
\* vesting account, takes the sum of the message's period amounts from the
\* funder's balance, adds it to the recipient's balance, and leaves the
\* recipient's OriginalVesting at its previous value (zero for a new
\* account) plus that sum.
C20_MovesPeriodSum == [][C20_Step]_vars

\* a grant was merged into a periodic vesting account that already held an
\* earlier grant, funded by another address
C20_Witness ==
    /\ pc = "returned"
    /\ in.entry = "CreatePeriodicVestingAccount"
    /\ out.err = "nil"
    /\ in.Merge
    /\ in.FromAddress # in.ToAddress
    /\ SumAmounts(in.VestingPeriods) > 0
    /\ accounts[in.ToAddress].OriginalVesting > SumAmounts(in.VestingPeriods)
    /\ balances[in.ToAddress] = accounts[in.ToAddress].OriginalVesting

\* a message that creates a vesting account has just been handled
CreateHandled ==
    /\ pc = "deliver"
    /\ pc' = "returned"
    /\ in'.entry \in {"CreateVestingAccount", "CreatePeriodicVestingAccount",
                      "CreateTrueVestingAccount"}

C21_Step ==
    (/\ CreateHandled
     /\ in'.entry = "CreateVestingAccount" \/ ~in'.Merge
     /\ GetAccount(accounts, in'.ToAddress).kind # "nil")
    => /\ out'.err # "nil"
       /\ out'.res = "nil"

C22_Step ==
    (/\ pc = "deliver"
     /\ pc' = "returned"
     /\ in'.entry = "CreatePeriodicVestingAccount"
     /\ in'.Merge
     /\ GetAccount(accounts, in'.ToAddress).kind \notin {"nil", "PeriodicVestingAccount"})
    => /\ out'.res = "nil"
       /\ out'.err # "nil"
       /\ in'.FromAddress \in DOMAIN balances
            => balances'[in'.FromAddress] = balances[in'.FromAddress]
       /\ balances'[in'.ToAddress] = balances[in'.ToAddress]
       /\ accounts'[in'.ToAddress] = accounts[in'.ToAddress]

\* C22: CreatePeriodicVestingAccount with Merge = true for a recipient whose
\* account exists and is not a periodic vesting account returns a nil result
\* and an error, and leaves the funder's balance, the recipient's balance and
\* the recipient's stored account as they were.
C22_MergeIntoOtherRejected == [][C22_Step]_vars

\* a merge into a plain account was refused while the funder had the coins
C22_Witness ==
    /\ pc = "returned"
    /\ in.entry = "CreatePeriodicVestingAccount"
    /\ in.Merge
    /\ out.err = "must be a periodic vesting account"
    /\ accounts[in.ToAddress].kind = "BaseAccount"
    /\ in.FromAddress # in.ToAddress
    /\ SumAmounts(in.VestingPeriods) > 0
    /\ balances[in.FromAddress] >= SumAmounts(in.VestingPeriods)

\* the account at the address of a Clawback message is none, not a true
\* vesting account, or one of another funder
NotSubjectToClawback(accs, msg) ==
    \/ GetAccount(accs, msg.Address).kind # "TrueVestingAccount"
    \/ GetAccount(accs, msg.Address).FunderAddress # msg.FunderAddress

C23_Step ==
    (/\ pc = "deliver"
     /\ pc' = "returned"
     /\ in'.entry = "Clawback")
    => /\ NotSubjectToClawback(accounts, in')
            => /\ out'.err # "nil"
               /\ ~out'.clawback
               /\ accounts' = accounts
               /\ balances' = balances
       /\ BlockedAddr(ClawbackDest(in')) => out'.err # "nil" /\ ~out'.clawback
       /\ out'.clawback
            => out'.dest = IF in'.DestAddress = "" THEN in'.FunderAddress
                                                   ELSE in'.DestAddress

\* C23: Clawback returns an error and does not invoke the account's clawback
\* when the address has no account, an account that is not a
\* TrueVestingAccount, or one whose FunderAddress is not the funder of the
\* message; a blocked destination is rejected; and the destination handed to
\* the account's clawback is the funder when DestAddress is empty.
C23_OnlyOriginalFunder == [][C23_Step]_vars

\* an address other than the funder asked for the clawback of a true vesting
\* account that has a funder, and was refused
C23_Witness ==
    /\ pc = "returned"
    /\ in.entry = "Clawback"
    /\ out.err = "clawback can only be requested by original funder"
    /\ ~out.clawback
    /\ in.FunderAddress = "addr3"
    /\ GetAccount(accounts, in.Address).kind = "TrueVestingAccount"
    /\ GetAccount(accounts, in.Address).FunderAddress = "addr1"

(***************************************************************************)
(* The sqlite Batch.                                                       *)
(***************************************************************************)
\* the statement of a call of Set or Delete
StatementOfCall(c, version) ==
    IF c.call = "Set"
      THEN [stmt |-> "upsertStmt", args |-> <<c.storeKey, c.key, c.value, version, c.value>>]
      ELSE [stmt |-> "delStmt", args |-> <<version, c.storeKey, c.key, version>>]

\* the latest-version upsert, then the statements of the calls in their order
ExpectedStatements(calls, version) ==
    <<ReservedUpsert(version)>>
      \o [i \in 1..Len(calls) |-> StatementOfCall(calls[i], version)]

IsPrefix(s, t) == Len(s) <= Len(t) /\ s = SubSeq(t, 1, Len(s))

C24_Step ==
    (pc = "batch" /\ out'.call = "Write")
    => /\ IsPrefix(out'.executed, ExpectedStatements(in, batch.version))
       /\ \A i \in 1..Len(db.txs) :
            IF i = batch.tx /\ db.txs[i].state = "open"
              THEN db'.txs[i].stmts = db.txs[i].stmts \o out'.executed
              ELSE db'.txs[i] = db.txs[i]
       /\ out'.err = "nil"
            => /\ out'.executed = ExpectedStatements(in, batch.version)
               /\ db'.txs[batch.tx].state = "committed"
               /\ db'.visible = db.visible \o db'.txs[batch.tx].stmts
       /\ out'.err # "nil"
            => /\ db'.visible = db.visible
               /\ db'.txs[batch.tx].state # "committed"
                    \/ db'.txs[batch.tx] = db.txs[batch.tx]

\* C24: Batch.Write executes the latest-version upsert and then the buffered
\* operations in the order of the Set and Delete calls made since the batch
\* was created or last reset, all in the one transaction of the batch, which
\* is committed only after every statement succeeded; if a statement fails
\* Write returns an error and nothing is committed.
C24_WriteInOrder == [][C24_Step]_vars

\* after a Reset, a Delete and then a Set were written and committed
C24_Witness ==
    /\ pc = "batch"
    /\ out.call = "Write"
    /\ out.err = "nil"
    /\ batch.tx = 2
    /\ Len(out.executed) = 3
    /\ out.executed[2].stmt = "delStmt"
    /\ out.executed[3].stmt = "upsertStmt"
    /\ db.visible = out.executed

(***************************************************************************)
(* The two validation modes.                                               *)
(***************************************************************************)
\* both calls on the buffer have returned
BothReturned ==
    /\ pc = "done"
    /\ in.entry = "RejectUnknownFields"
    /\ in.allow
    /\ Len(results) = 1

\* C25: on every buffer the strict call returns no error exactly when the
\* permissive call returns no error and hasUnknownNonCriticals = false, and
\* whenever the permissive call returns an error the strict call returns an
\* error too.
C25_ModesAgree ==
    BothReturned
    => /\ (results[1].err = "nil") <=> (out.err = "nil" /\ ~out.has)
       /\ out.err # "nil" => results[1].err # "nil"

\* a buffer the modes tell apart: strict rejects it, permissive accepts it
\* and raises the flag
C25_Witness ==
    /\ BothReturned
    /\ results[1].err = "ErrUnknownField"
    /\ out.err = "nil"
    /\ out.has

C28_Step ==
    (CreateHandled /\ out'.err # "nil")
    => /\ accounts' = accounts
       /\ balances' = balances

\* C28: when CreateVestingAccount, CreatePeriodicVestingAccount or
\* CreateTrueVestingAccount returns an error, the account store and all
\* balances are as before the call: when the transfer from the funder fails
\* no new vesting account has been stored and no existing account's schedule
\* or OriginalVesting has changed.
C28_FailureLeavesState == [][C28_Step]_vars

====
